---- MODULE Spec2Model ----
(***************************************************************************)
(* Model of the MDII coordinator panel: the Kobo API client                *)
(* (fetchData, getToolMaturity, getSurveyData), and the dashboard's        *)
(* checkOverallStatus / handleSearch.                                      *)
(*                                                                         *)
(* Strings are sequences of one-character strings, so that trim() and      *)
(* toLowerCase() are computed, not assumed.  A record is a function from   *)
(* field names to strings; an absent field is a name outside its DOMAIN.   *)
(* An error message is a sequence of chunks: [lit |-> text] for literal    *)
(* text of a template and [val |-> string] for an interpolated value.      *)
(***************************************************************************)
EXTENDS Integers, Sequences, FiniteSets, TLC

VARIABLES
  cls_resp,      \* SpecClassify: the proxy's response for MAIN_FORM_ID
  cls_toolId,    \* SpecClassify: the toolId argument of getToolMaturity
  cls_result,    \* SpecClassify: the settled promise of getToolMaturity, or Pending
  m_results,     \* SpecMatch: data.results of a fetched form
  m_toolId,      \* SpecMatch: the toolId matched against
  m_survey,      \* SpecMatch: matchingRecords of getSurveyData, or NotRun
  m_innovator,   \* SpecMatch: matchingRecords of an innovator form, or NotRun
  m_expert,      \* SpecMatch: matchingRecords of the domain expert form, or NotRun
  toolId,        \* useState: the text of the search input
  loading,       \* useState
  maturityLevel, \* useState: "null", "advanced" or "early"
  formData,      \* useState: KoboFormData[]
  error,         \* useState: NoError for null
  overallStatus, \* useState: OverallStatus
  formCache,     \* ExcelFormParser.formCache: formType -> FormQuestions
  searches,      \* the calls of handleSearch that passed its guard, in call order
  searchesLeft,  \* how many more searches the user starts
  failuresLeft,  \* how many more requests the environment fails
  xl_calls,      \* SpecCache: the calls of loadFormSchema, in call order
  xl_clears,     \* SpecCache: how often clearCache has been called
  t_results,     \* SpecTable: data.results of the fetched survey form
  t_survey,      \* SpecTable: the rows of the form's "survey" sheet
  t_form,        \* SpecTable: the KoboFormData of getSurveyData, or NotRun
  t_table,       \* SpecTable: the memo of DataTable, or NotRun
  t_choice,      \* SpecTable: a settled call of getChoiceLabel, or NotRun
  d_results,     \* SpecDecode: data.results of the domain expert form
  d_level,       \* SpecDecode: the maturity argument of checkOverallStatus
  d_statuses     \* SpecDecode: the domain expert statuses, or NotRun

clsVars == <<cls_resp, cls_toolId, cls_result>>
matchVars == <<m_results, m_toolId, m_survey, m_innovator, m_expert>>
uiVars == <<loading, maturityLevel, formData, error, overallStatus>>
dashVars == <<toolId, uiVars, formCache, searches, searchesLeft, failuresLeft>>

xlVars == <<xl_calls, xl_clears>>

tblVars == <<t_results, t_survey, t_form, t_table, t_choice>>
decVars == <<d_results, d_level, d_statuses>>

vars == <<clsVars, matchVars, dashVars, xlVars, tblVars, decVars>>

(***************************************************************************)
(* Bounds of the model.                                                    *)
(***************************************************************************)
MaxMaster == 2      \* longest master record list drawn
MaxRecords == 2     \* longest form record list drawn for the matchers
MaxSearches == 2    \* calls of handleSearch that start a search
MaxFailures == 2    \* requests the environment fails in one behaviour
MaxLoads == 3       \* calls of loadFormSchema in one behaviour
MaxClears == 1      \* calls of clearCache in one behaviour

(***************************************************************************)
(* String.prototype.toLowerCase and String.prototype.trim.                 *)
(***************************************************************************)
UpperLetters == <<"A","B","C","D","E","F","G","H","I","J","K","L","M",
                  "N","O","P","Q","R","S","T","U","V","W","X","Y","Z">>
LowerLetters == <<"a","b","c","d","e","f","g","h","i","j","k","l","m",
                  "n","o","p","q","r","s","t","u","v","w","x","y","z">>

WhiteSpace == {" ", "\t", "\n"}

LowerChar(c) ==
  IF \E i \in DOMAIN UpperLetters : UpperLetters[i] = c
  THEN LowerLetters[CHOOSE i \in DOMAIN UpperLetters : UpperLetters[i] = c]
  ELSE c

\* (the binder has s evaluated once, also where TLC evaluates ENABLED)
toLowerCase(s) ==
  CHOOSE r \in {[i \in DOMAIN v |-> LowerChar(v[i])] : v \in {s}} : TRUE

RECURSIVE trimStart(_)
trimStart(s) ==
  IF s # <<>> /\ Head(s) \in WhiteSpace THEN trimStart(Tail(s)) ELSE s

RECURSIVE trimEnd(_)
trimEnd(s) ==
  IF s # <<>> /\ s[Len(s)] \in WhiteSpace
  THEN trimEnd(SubSeq(s, 1, Len(s) - 1))
  ELSE s

trim(s) == trimEnd(trimStart(s))

(***************************************************************************)
(* A record is the list of its [key, value] entries in insertion order     *)
(* (keys are unique); a key is the list of the segments between "/".       *)
(* Truthy is the test `record[field]` of a field that holds a string, and  *)
(* FieldOrEmpty is `record[field] || ""`.                                  *)
(***************************************************************************)
Has(record, field) == \E i \in DOMAIN record : record[i].key = field

Get(record, field) ==
  record[CHOOSE i \in DOMAIN record : record[i].key = field].value

Truthy(record, field) == Has(record, field) /\ Get(record, field) # <<>>

FieldOrEmpty(record, field) ==
  IF Truthy(record, field) THEN Get(record, field) ELSE <<>>

Entry(k, v) == [key |-> k, value |-> v]

(***************************************************************************)
(* KOBO_CONFIG                                                             *)
(***************************************************************************)
TOOL_ID_FIELD == <<"ID">>
MATURITY_FIELD == <<"tool_maturity">>
MAIN_FORM_ID == "aJn2DsjpAeJjrB6VazHjtz"

Lit(text) == [lit |-> text]
Val(s) == [val |-> s]

Pending == [state |-> "pending"]
Resolved(v) == [state |-> "resolved", value |-> v]
Rejected(name, message) ==
  [state |-> "rejected", name |-> name, message |-> message]

(***************************************************************************)
(* KoboApiClient.fetchData, applied to the response the proxy gives.       *)
(* A response is one of                                                    *)
(*   [kind |-> "network"]                    fetch() itself rejects        *)
(*   [kind |-> "http", body |-> b]           !response.ok; b is "nojson",  *)
(*                                           "noerror" or an error string  *)
(*   [kind |-> "ok", results |-> list]       a body with a results list    *)
(*   [kind |-> "noresults"]                  an ok body without results    *)
(***************************************************************************)
fetchData(resp) ==
  CASE resp.kind = "network" ->
         Rejected("TypeError", <<Lit("Failed to fetch")>>)
    [] resp.kind = "http" ->
         IF resp.body = "nojson"
         THEN Rejected("Error", <<Lit("Unknown error")>>)
         ELSE IF resp.body = "noerror"
         THEN Rejected("Error", <<Lit("HTTP status: statusText")>>)
         ELSE Rejected("Error", <<Lit(resp.body)>>)
    [] resp.kind = "noresults" ->
         Rejected("TypeError",
                  <<Lit("Cannot read properties of undefined (reading 'length')")>>)
    [] resp.kind = "ok" -> Resolved(resp.results)

(***************************************************************************)
(* KoboApiClient.getToolMaturity (latest version).                         *)
(***************************************************************************)
Returns(v) == [kind |-> "return", value |-> v]
Throws(name, message) == [kind |-> "throw", name |-> name, message |-> message]

s_advanced == <<"a","d","v","a","n","c","e","d">>
s_advance == <<"a","d","v","a","n","c","e">>
s_advance_stage == <<"a","d","v","a","n","c","e","_","s","t","a","g","e">>
s_early == <<"e","a","r","l","y">>
s_early_stage == <<"e","a","r","l","y","_","s","t","a","g","e">>

\* mutant: the synonym table without "advance_stage"
MaturityBranch_NoAdvanceStage(maturity) ==
  IF maturity = s_advanced \/ maturity = s_advance
  THEN Returns("advanced")
  ELSE IF maturity = s_early \/ maturity = s_early_stage
  THEN Returns("early")
  ELSE Throws("Error", <<Lit("Invalid maturity level. ")>>)

\* the if / else-if / else over the normalized maturity value
MaturityBranch(maturity) ==
  IF maturity = s_advanced \/ maturity = s_advance \/ maturity = s_advance_stage
  THEN Returns("advanced")
  ELSE IF maturity = s_early \/ maturity = s_early_stage
  THEN Returns("early")
  ELSE Throws("Error", <<Lit("Invalid maturity level. ")>>)

\* const maturity = String(record[MATURITY_FIELD] || "").toLowerCase().trim()
MaturityOfRecord(record) ==
  MaturityBranch(trim(toLowerCase(FieldOrEmpty(record, MATURITY_FIELD))))

\* String(toolId).trim().toLowerCase()
NormalizeId(id) == toLowerCase(trim(id))

\* recordId === searchToolId
MasterRecordMatches(record, searchToolId) ==
  NormalizeId(FieldOrEmpty(record, TOOL_ID_FIELD)) = searchToolId

\* mutant: a matching record with an invalid maturity is skipped
RECURSIVE ScanMaster_SkipInvalid(_, _, _)
ScanMaster_SkipInvalid(results, tid, i) ==
  IF i > Len(results)
  THEN Throws("Error", <<Lit("Tool ID \""), Val(tid), Lit("\" not found.")>>)
  ELSE IF /\ MasterRecordMatches(results[i], NormalizeId(tid))
          /\ MaturityOfRecord(results[i]).kind = "return"
  THEN MaturityOfRecord(results[i])
  ELSE ScanMaster_SkipInvalid(results, tid, i + 1)

\* the for loop from index i on, and the throw after it
RECURSIVE ScanMaster(_, _, _)
ScanMaster(results, tid, i) ==
  IF i > Len(results)
  THEN Throws("Error", <<Lit("Tool ID \""), Val(tid), Lit("\" not found.")>>)
  ELSE IF MasterRecordMatches(results[i], NormalizeId(tid))
  THEN MaturityOfRecord(results[i])
  ELSE ScanMaster(results, tid, i + 1)

\* the body of the try block
ToolMaturityTry(resp, tid) ==
  LET data == fetchData(resp) IN
  IF data.state = "rejected"
  THEN Throws(data.name, data.message)
  ELSE ScanMaster(data.value, tid, 1)

\* catch (error) { throw new Error(`Failed to fetch data - ${error.message}`) }
getToolMaturity(resp, tid) ==
  LET r == ToolMaturityTry(resp, tid) IN
  IF r.kind = "return"
  THEN Resolved(r.value)
  ELSE Rejected("Error", <<Lit("Failed to fetch data - ")>> \o r.message)

(***************************************************************************)
(* The matching loop of getSurveyData.                                     *)
(***************************************************************************)
Q_TOOL_ID == "Q_13110000"
K_toolid == <<"group_toolid", Q_TOOL_ID>>
K_requester == <<"group_requester", Q_TOOL_ID>>
K_individualinfo == <<"group_individualinfo", Q_TOOL_ID>>
K_intro == <<"group_intro", Q_TOOL_ID>>
K_bare == <<Q_TOOL_ID>>

\* mutant: the record side is trimmed but not lowercased
SurveyRecordToolId_NoLower(record) ==
  IF Truthy(record, K_toolid) THEN trim(Get(record, K_toolid))
  ELSE IF Truthy(record, K_requester) THEN trim(Get(record, K_requester))
  ELSE IF Truthy(record, K_individualinfo) THEN trim(Get(record, K_individualinfo))
  ELSE IF Truthy(record, K_intro) THEN trim(Get(record, K_intro))
  ELSE IF Truthy(record, K_bare) THEN trim(Get(record, K_bare))
  ELSE <<>>

\* mutant: group_requester is probed before group_toolid
SurveyRecordToolId_RequesterFirst(record) ==
  IF Truthy(record, K_requester) THEN toLowerCase(trim(Get(record, K_requester)))
  ELSE IF Truthy(record, K_toolid) THEN toLowerCase(trim(Get(record, K_toolid)))
  ELSE IF Truthy(record, K_individualinfo)
       THEN toLowerCase(trim(Get(record, K_individualinfo)))
  ELSE IF Truthy(record, K_intro) THEN toLowerCase(trim(Get(record, K_intro)))
  ELSE IF Truthy(record, K_bare) THEN toLowerCase(trim(Get(record, K_bare)))
  ELSE <<>>

\* let recordToolId = ""; if ... else if ... (the five candidate fields)
SurveyRecordToolId(record) ==
  IF Truthy(record, K_toolid) THEN toLowerCase(trim(Get(record, K_toolid)))
  ELSE IF Truthy(record, K_requester) THEN toLowerCase(trim(Get(record, K_requester)))
  ELSE IF Truthy(record, K_individualinfo)
       THEN toLowerCase(trim(Get(record, K_individualinfo)))
  ELSE IF Truthy(record, K_intro) THEN toLowerCase(trim(Get(record, K_intro)))
  ELSE IF Truthy(record, K_bare) THEN toLowerCase(trim(Get(record, K_bare)))
  ELSE <<>>

\* mutant: matchingRecords.unshift(record) in place of push
RECURSIVE SurveyMatchingRecords_Unshift(_, _, _)
SurveyMatchingRecords_Unshift(results, tid, i) ==
  IF i > Len(results) THEN <<>>
  ELSE SurveyMatchingRecords_Unshift(results, tid, i + 1)
       \o (IF SurveyRecordToolId(results[i]) = NormalizeId(tid)
           THEN <<results[i]>> ELSE <<>>)

\* for (const record of data.results) { ... matchingRecords.push(record) }
RECURSIVE SurveyMatchingRecords(_, _, _)
SurveyMatchingRecords(results, tid, i) ==
  IF i > Len(results) THEN <<>>
  ELSE (IF SurveyRecordToolId(results[i]) = NormalizeId(tid)
        THEN <<results[i]>> ELSE <<>>)
       \o SurveyMatchingRecords(results, tid, i + 1)

(***************************************************************************)
(* The record filters of checkOverallStatus.                               *)
(***************************************************************************)
\* data.results.filter of an innovator form
InnovatorMatches(record, tid) ==
  trim(FieldOrEmpty(record, K_requester)) = trim(tid)

InnovatorMatchingRecords(results, tid) ==
  LET Test(record) == InnovatorMatches(record, tid) IN SelectSeq(results, Test)

\* record["group_intro/..."] || record["group_requester/..."] || record["Q_..."] || ""
ExpertRecordToolId(record) ==
  trim(IF Truthy(record, K_intro) THEN Get(record, K_intro)
       ELSE IF Truthy(record, K_requester) THEN Get(record, K_requester)
       ELSE IF Truthy(record, K_bare) THEN Get(record, K_bare)
       ELSE <<>>)

\* data.results.filter of the domain expert form
ExpertMatches(record, tid) == ExpertRecordToolId(record) = trim(tid)

ExpertMatchingRecords(results, tid) ==
  LET Test(record) == ExpertMatches(record, tid) IN SelectSeq(results, Test)

(***************************************************************************)
(* Configuration tables of the API client and of the dashboard.            *)
(***************************************************************************)
USERTYPE3_FORMS(level) ==
  IF level = "advanced" THEN "aFfhFi5vpsierwc3b5SNvc" ELSE "aCAhpbKYdsMbnGcWo4yR42"

USERTYPE4_FORMS(level) ==
  IF level = "advanced" THEN "aU5LwrZps9u7Yt7obeShjv" ELSE "aKhnEosysRHsrUKxanCSKc"

\* Object.entries(INNOVATOR_FORMS), in insertion order
INNOVATOR_FORMS ==
  <<[role |-> "leadership", formId |-> "afiUqEoYaGMS8RaygTPuAR"],
    [role |-> "technical", formId |-> "aqxEbPgQTMQQqe42ZFW2cc"],
    [role |-> "projectManager", formId |-> "auq274db5dfNGasdH4bWdU"]>>

\* mutant: the domain expert form does not depend on the maturity level
DOMAIN_EXPERT_FORMS_AdvancedOnly(level) == "ap6dUEDwX7KUsKLFZUD7kb"

DOMAIN_EXPERT_FORMS(level) ==
  IF level = "advanced" THEN "ap6dUEDwX7KUsKLFZUD7kb" ELSE "au52CRd6ATzV7S36WcAdDu"

DOMAIN_CODE_MAPPING ==
  <<[code |-> <<"c","e">>, name |-> "Country Expert"],
    [code |-> <<"c","o","u","n","t","r","y","_","e","x","p","e","r","t">>,
     name |-> "Country Expert"],
    [code |-> <<"d","a","t","a">>, name |-> "Data"],
    [code |-> <<"e","c","o","n">>, name |-> "Economics"],
    [code |-> <<"g","e","s","i">>, name |-> "Gender Equity and Social Inclusion"],
    [code |-> <<"h","c","d">>, name |-> "Human-Centered Design"],
    [code |-> <<"i","c","t">>, name |-> "Information and Communication Technologies"]>>

\* mutant: one list of categories for both maturities
DOMAIN_CATEGORIES_SameForBoth(level) ==
  <<"Country Expert", "Data", "Economics", "Gender Equity and Social Inclusion",
    "Human-Centered Design", "Information and Communication Technologies">>

DOMAIN_CATEGORIES(level) ==
  IF level = "advanced"
  THEN <<"Country Expert", "Data", "Economics", "Gender Equity and Social Inclusion",
         "Human-Centered Design", "Information and Communication Technologies">>
  ELSE <<"Country Expert", "Data", "Economics", "Gender Equity and Social Inclusion",
         "Information and Communication Technologies">>

\* ExcelFormParser.getFormType
getFormType(userType, level) ==
  IF userType = "usertype3"
  THEN (IF level = "advanced" THEN "ut3_advance" ELSE "ut3_early")
  ELSE (IF level = "advanced" THEN "ut4_advance" ELSE "ut4_early")

\* formsToFetch of getSurveyData
formsToFetch(level) ==
  <<[userType |-> "usertype3", formId |-> USERTYPE3_FORMS(level),
     formType |-> getFormType("usertype3", level)],
    [userType |-> "usertype4", formId |-> USERTYPE4_FORMS(level),
     formType |-> getFormType("usertype4", level)]>>

(***************************************************************************)
(* An optional error field: NoError is undefined / null.                   *)
(***************************************************************************)
NoError == [set |-> FALSE, message |-> <<>>]
ErrorOf(message) == [set |-> TRUE, message |-> message]

(***************************************************************************)
(* checkOverallStatus: one innovator form (the body of the map callback).  *)
(***************************************************************************)
RoleLabel(role) ==
  CASE role = "projectManager" -> "Project Manager"
    [] role = "leadership" -> "Leadership"
    [] role = "technical" -> "Technical"

\* the catch branch of the callback
InnovatorCaught(role, formId, message) ==
  [role |-> RoleLabel(role), formId |-> formId, submitted |-> FALSE,
   submissionCount |-> 0, error |-> ErrorOf(message)]

InnovatorStatusOf(role, formId, resp, tid) ==
  LET data == fetchData(resp) IN
  IF data.state = "rejected"
  THEN InnovatorCaught(role, formId, data.message)
  ELSE LET matchingRecords == InnovatorMatchingRecords(data.value, tid) IN
       [role |-> RoleLabel(role), formId |-> formId,
        submitted |-> Len(matchingRecords) > 0,
        submissionCount |-> Len(matchingRecords), error |-> NoError]

(***************************************************************************)
(* checkOverallStatus: the domain expert form.                             *)
(***************************************************************************)
K_expertise_early == <<"group_individualinfo", "Q_22300000">>
K_expertise_advanced == <<"group_intro_001", "Q_22300000">>

\* expertiseString.split(/\s+/) of a trimmed, non-empty string
RECURSIVE SplitOnSpace(_, _)
SplitOnSpace(str, word) ==
  IF str = <<>> THEN (IF word = <<>> THEN <<>> ELSE <<word>>)
  ELSE IF Head(str) \in WhiteSpace
  THEN (IF word = <<>> THEN <<>> ELSE <<word>>) \o SplitOnSpace(Tail(str), <<>>)
  ELSE SplitOnSpace(Tail(str), Append(word, Head(str)))

\* mutant: the expertise string is trimmed but not lower-cased
ExpertiseString_NoLower(record, level) ==
  trim(IF level = "early"
       THEN FieldOrEmpty(record, K_expertise_early)
       ELSE FieldOrEmpty(record, K_expertise_advanced))

ExpertiseString(record, level) ==
  toLowerCase(trim(IF level = "early"
                   THEN FieldOrEmpty(record, K_expertise_early)
                   ELSE FieldOrEmpty(record, K_expertise_advanced)))

\* the lower-case property names an object literal inherits, among the
\* tokens of the model
s_constructor == <<"c","o","n","s","t","r","u","c","t","o","r">>
InheritedNames == {s_constructor}

\* DOMAIN_CODE_MAPPING[code]: the name of an own key, the (truthy) inherited
\* value of an inherited one, or "" for undefined
FullName(code) ==
  IF \E i \in DOMAIN DOMAIN_CODE_MAPPING : DOMAIN_CODE_MAPPING[i].code = code
  THEN DOMAIN_CODE_MAPPING[
         CHOOSE i \in DOMAIN DOMAIN_CODE_MAPPING : DOMAIN_CODE_MAPPING[i].code = code].name
  ELSE IF code \in InheritedNames THEN "function Object() { [native code] }"
  ELSE ""

\* how often the codes of one record name the category
CodesNaming(codes, category) ==
  Cardinality(UNION {{i \in DOMAIN c : FullName(c[i]) = category} : c \in {codes}})

\* categorySubmissions.get(category) || 0 after the forEach over the records
RECURSIVE CategoryCount(_, _, _)
CategoryCount(records, level, category) ==
  IF records = <<>> THEN 0
  ELSE (CHOOSE n \in {CodesNaming(SplitOnSpace(expertiseString, <<>>), category) :
                         expertiseString \in {ExpertiseString(Head(records), level)}} :
          TRUE)
       + CategoryCount(Tail(records), level, category)

ExpertStatusesOf(resp, tid, level) ==
  LET data == fetchData(resp)
      categories == DOMAIN_CATEGORIES(level)
  IN
  IF data.state = "rejected"
  THEN [i \in DOMAIN categories |->
          [category |-> categories[i], maturityLevel |-> level,
           submitted |-> FALSE, submissionCount |-> 0]]
  ELSE CHOOSE statuses \in
         {[i \in DOMAIN categories |->
             [category |-> categories[i], maturityLevel |-> level,
              submitted |-> CategoryCount(matchingRecords, level, categories[i]) > 0,
              submissionCount |->
                CategoryCount(matchingRecords, level, categories[i])]] :
          matchingRecords \in {ExpertMatchingRecords(data.value, tid)}} : TRUE

(***************************************************************************)
(* ExcelFormParser.loadFormSchema after its cache miss, applied to the     *)
(* response for the definition file.  A file response is one of            *)
(*   [kind |-> "network"]            fetch() itself rejects                *)
(*   [kind |-> "notok"]              !response.ok                          *)
(*   [kind |-> "nosheet"]            a workbook without a "survey" sheet   *)
(*   [kind |-> "ok", survey |-> q]   a workbook whose survey sheet parses  *)
(*                                   to the question list q                *)
(***************************************************************************)
loadFormSchema(fileResp, formType) ==
  CASE fileResp.kind = "network" -> Throws("TypeError", <<Lit("Failed to fetch")>>)
    [] fileResp.kind = "notok" ->
         Throws("Error", <<Lit("Could not load form schema file: /"), Lit(formType),
                           Lit(".xlsx")>>)
    [] fileResp.kind = "nosheet" ->
         Throws("Error", <<Lit("No \"survey\" sheet found in the Excel file")>>)
    [] fileResp.kind = "ok" -> Returns([survey |-> fileResp.survey])

\* ExcelFormParser.getQuestionLabels on a loaded schema
getQuestionLabels(schema) ==
  [i \in DOMAIN schema.survey |->
     [name |-> schema.survey[i].name, label |-> schema.survey[i].label,
      type |-> schema.survey[i].type, choices |-> schema.survey[i].choices]]

(***************************************************************************)
(* getSurveyData: one form (the body of the map callback).                 *)
(***************************************************************************)
\* key.split('/').pop() || key
StripPrefix(key) == IF key[Len(key)] = "" THEN key ELSE <<key[Len(key)]>>

\* normalizedRecord[normalizedKey] = record[key], for the keys in order
RECURSIVE NormalizeEntries(_, _)
NormalizeEntries(entries, normalizedRecord) ==
  IF entries = <<>> THEN normalizedRecord
  ELSE LET k == StripPrefix(Head(entries).key)
           v == Head(entries).value
       IN  NormalizeEntries(
             Tail(entries),
             IF Has(normalizedRecord, k)
             THEN [i \in DOMAIN normalizedRecord |->
                     IF normalizedRecord[i].key = k THEN Entry(k, v)
                     ELSE normalizedRecord[i]]
             ELSE Append(normalizedRecord, Entry(k, v)))

NormalizeRecord(record) == NormalizeEntries(record, <<>>)

NormalizeQuestions(questions) ==
  [i \in DOMAIN questions |->
     [questions[i] EXCEPT !.name = StripPrefix(questions[i].name)]]

\* mutant: the outer catch returns the result without the error field
SurveyCaught_NoError(form, level, message) ==
  [userType |-> form.userType, maturityLevel |-> level, data |-> <<>>,
   formId |-> form.formId, questions |-> <<>>, error |-> NoError]

\* the outer catch of the callback
SurveyCaught(form, level, message) ==
  [userType |-> form.userType, maturityLevel |-> level, data |-> <<>>,
   formId |-> form.formId, questions |-> <<>>, error |-> ErrorOf(message)]

\* mutant: the catch (excelError) branch returns no error field
SurveyExcelCaught_NoError(form, level, matchingRecords, message) ==
  [userType |-> form.userType, maturityLevel |-> level,
   data |-> matchingRecords, formId |-> form.formId, questions |-> <<>>,
   error |-> NoError]

\* the catch (excelError) branch
SurveyExcelCaught(form, level, matchingRecords, message) ==
  [userType |-> form.userType, maturityLevel |-> level,
   data |-> matchingRecords, formId |-> form.formId, questions |-> <<>>,
   error |-> ErrorOf(<<Lit("Failed to load question labels from Excel: ")>> \o message)]

\* the return after both try blocks
SurveyLoaded(form, level, matchingRecords, schema) ==
  [userType |-> form.userType, maturityLevel |-> level,
   data |-> [i \in DOMAIN matchingRecords |-> NormalizeRecord(matchingRecords[i])],
   formId |-> form.formId,
   questions |-> NormalizeQuestions(getQuestionLabels(schema)),
   error |-> NoError]

(***************************************************************************)
(* Promise.all over the promises of the listed sources.  `order` is the    *)
(* order in which the promises settled.                                    *)
(***************************************************************************)
\* mutant: the values are collected in the order the promises settled
PromiseAll_CompletionOrder(promises, sources, order) ==
  [i \in DOMAIN sources |-> promises[order[i]].value]

PromiseAll(promises, sources, order) ==
  [i \in DOMAIN sources |-> promises[sources[i]].value]

AllResolved(promises, sources) ==
  \A i \in DOMAIN sources : promises[sources[i]].state = "resolved"

(***************************************************************************)
(* The parts of the state a specification does not use stay as they are    *)
(* before any call.                                                        *)
(***************************************************************************)
NotRun == [state |-> "notrun"]
Matched(records) == [state |-> "matched", records |-> records]

ClsIdle ==
  /\ cls_resp = [kind |-> "network"]
  /\ cls_toolId = <<>>
  /\ cls_result = Pending

MatchIdle ==
  /\ m_results = <<>>
  /\ m_toolId = <<>>
  /\ m_survey = NotRun
  /\ m_innovator = NotRun
  /\ m_expert = NotRun

\* the state of CoordinatorDashboard after its first render
EmptyStatus ==
  [innovators |-> <<>>, domainExperts |-> <<>>, loading |-> FALSE, error |-> NoError]

XlIdle ==
  /\ xl_calls = <<>>
  /\ xl_clears = 0

TblIdle ==
  /\ t_results = <<>>
  /\ t_survey = <<>>
  /\ t_form = NotRun
  /\ t_table = NotRun
  /\ t_choice = NotRun

DecIdle ==
  /\ d_results = <<>>
  /\ d_level = "advanced"
  /\ d_statuses = NotRun

DashIdle ==
  /\ toolId = <<>>
  /\ loading = FALSE
  /\ maturityLevel = "null"
  /\ formData = <<>>
  /\ error = NoError
  /\ overallStatus = EmptyStatus
  /\ formCache = <<>>
  /\ searches = <<>>
  /\ searchesLeft = 0
  /\ failuresLeft = 0

(***************************************************************************)
(* Inputs drawn for the classifier.                                        *)
(***************************************************************************)
s_ab == <<"a","b">>
s_Ab_sp == <<"A","b"," ">>
s_b == <<"b">>
s_Advance_sp == <<" ","A","d","v","a","n","c","e">>
s_EARLY_tab == <<"E","A","R","L","Y","\t">>
s_Unknown == <<"U","n","k","n","o","w","n">>

MasterIdValues == {s_ab, s_Ab_sp, s_b}
MaturityValues ==
  {s_advanced, s_Advance_sp, s_advance_stage, s_EARLY_tab, s_early_stage, s_Unknown}

MasterRecord(id, maturity) ==
  <<Entry(TOOL_ID_FIELD, id), Entry(MATURITY_FIELD, maturity)>>

MasterRecords ==
  {MasterRecord(i, m) : i \in MasterIdValues, m \in MaturityValues}
  \cup {<<Entry(MATURITY_FIELD, s_advanced)>>}
  \cup {<<Entry(TOOL_ID_FIELD, s_ab)>>}
  \cup {MasterRecord(<<>>, s_early)}

SeqsUpTo(S, n) == UNION {[1..k -> S] : k \in 0..n}

FailedResponses ==
  {[kind |-> "network"], [kind |-> "noresults"],
   [kind |-> "http", body |-> "nojson"], [kind |-> "http", body |-> "noerror"],
   [kind |-> "http", body |-> "Form not found. Check form ID"]}

MasterResponses ==
  FailedResponses
  \cup {[kind |-> "ok", results |-> l] : l \in SeqsUpTo(MasterRecords, MaxMaster)}

SearchedToolIds == {s_ab, <<" ","a","B">>, <<"c">>, <<" ">>}

(***************************************************************************)
(* SpecClassify: one call of getToolMaturity on drawn inputs.              *)
(***************************************************************************)
ClassifyInit ==
  /\ cls_resp \in MasterResponses
  /\ cls_toolId \in SearchedToolIds
  /\ cls_result = Pending
  /\ MatchIdle
  /\ DashIdle
  /\ XlIdle
  /\ TblIdle
  /\ DecIdle

\* await apiClient.getToolMaturity(toolId) settles
ClassifyCall ==
  /\ cls_result = Pending
  /\ cls_result' = getToolMaturity(cls_resp, cls_toolId)
  /\ UNCHANGED <<cls_resp, cls_toolId>>
  /\ UNCHANGED <<matchVars, dashVars, xlVars, tblVars, decVars>>

ClassifyNext == ClassifyCall

SpecClassify == ClassifyInit /\ [][ClassifyNext]_vars

(***************************************************************************)
(* Equality of two strings up to surrounding white space and letter case,  *)
(* stated without trim() and toLowerCase().                                *)
(***************************************************************************)
SetMin(S) == CHOOSE x \in S : \A y \in S : x <= y
SetMax(S) == CHOOSE x \in S : \A y \in S : y <= x

Core(s) ==
  LET inked == {i \in DOMAIN s : s[i] \notin WhiteSpace} IN
  IF inked = {} THEN <<>> ELSE SubSeq(s, SetMin(inked), SetMax(inked))

SameLetter(c, d) ==
  \/ c = d
  \/ \E i \in DOMAIN UpperLetters : {c, d} = {UpperLetters[i], LowerLetters[i]}

SameText(a, b) ==
  LET x == Core(a)
      y == Core(b)
  IN  Len(x) = Len(y) /\ \A i \in DOMAIN x : SameLetter(x[i], y[i])

(***************************************************************************)
(* Claims about getToolMaturity, under SpecClassify.                       *)
(***************************************************************************)
ClsSettled == cls_result # Pending
ClsFetched == cls_resp.kind = "ok"
ClsMatches ==
  {i \in DOMAIN cls_resp.results :
     SameText(FieldOrEmpty(cls_resp.results[i], TOOL_ID_FIELD), cls_toolId)}
ClsFirst == cls_resp.results[SetMin(ClsMatches)]
ClsFound == ClsFetched /\ ClsMatches # {}
ClsRawMaturity == FieldOrEmpty(ClsFirst, MATURITY_FIELD)
AdvancedWords == {s_advanced, s_advance, s_advance_stage}
EarlyWords == {s_early, s_early_stage}
ClsInTable == \E w \in AdvancedWords \cup EarlyWords : SameText(ClsRawMaturity, w)

\* C6: for the first master record whose identifier matches, the maturity
\* field is lowercased and trimmed; the result is advanced for exactly
\* advanced, advance, advance_stage and early for exactly early, early_stage;
\* no other value yields a maturity level.
C6_SynonymTable ==
  (ClsSettled /\ ClsFound) =>
    /\ cls_result = Resolved("advanced")
         <=> \E w \in AdvancedWords : SameText(ClsRawMaturity, w)
    /\ cls_result = Resolved("early")
         <=> \E w \in EarlyWords : SameText(ClsRawMaturity, w)
    /\ cls_result.state = "resolved" => cls_result.value \in {"advanced", "early"}

C6_Witness ==
  /\ ClsSettled /\ ClsFound
  /\ ClsRawMaturity = s_advance_stage
  /\ cls_result = Resolved("advanced")

\* C7: when a master record matches the tool id but its maturity value is not
\* in the synonym table, getToolMaturity fails with an error whose content
\* preserves the exact text of the offending maturity value.
C7_InvalidKeepsValue ==
  (ClsSettled /\ ClsFound /\ ~ClsInTable /\ ClsRawMaturity # <<>>) =>
    /\ cls_result.state = "rejected"
    /\ \E i \in DOMAIN cls_result.message :
         cls_result.message[i] = Val(ClsRawMaturity)

IsNotFound(r) ==
  /\ r.state = "rejected"
  /\ \E i \in DOMAIN r.message : r.message[i] = Lit("\" not found.")

\* an ok response whose only record matches toolId and has a bad maturity
InvalidResponseFor(tid) ==
  [kind |-> "ok", results |-> <<MasterRecord(tid, s_Unknown)>>]

\* C8: getToolMaturity fails with a tool-not-found error if and only if the
\* master fetch succeeded and no master record has a normalized identifier
\* equal to the normalized tool id; that error is of a distinct kind from a
\* master-fetch failure and from an invalid-maturity error.
C8_NotFoundDistinctKind ==
  ClsSettled =>
    /\ IsNotFound(cls_result) <=> (ClsFetched /\ ClsMatches = {})
    /\ IsNotFound(cls_result) =>
         /\ \A f \in FailedResponses :
              getToolMaturity(f, cls_toolId).name # cls_result.name
         /\ getToolMaturity(InvalidResponseFor(cls_toolId), cls_toolId).name
              # cls_result.name

\* the part of C8 that the code does satisfy
NotFoundIffNoMatch ==
  ClsSettled => (IsNotFound(cls_result) <=> (ClsFetched /\ ClsMatches = {}))

\* C9: when several master records carry the searched tool id, the outcome is
\* determined solely by the first of them in list order, also when the first
\* has an invalid maturity value and a later one a valid value.
C9_FirstMatchWins ==
  (ClsSettled /\ ClsFound) =>
    cls_result = getToolMaturity([kind |-> "ok", results |-> <<ClsFirst>>], cls_toolId)

C9_Witness ==
  /\ ClsSettled /\ ClsFound
  /\ Cardinality(ClsMatches) >= 2
  /\ ~ClsInTable
  /\ \E i \in ClsMatches :
       \E w \in AdvancedWords \cup EarlyWords :
         SameText(FieldOrEmpty(cls_resp.results[i], MATURITY_FIELD), w)
  /\ cls_result.state = "rejected"

(***************************************************************************)
(* SpecMatch: the three matchers applied to a drawn record list.           *)
(***************************************************************************)
s_AB_sp == <<" ","A","B"," ">>
s_c == <<"c">>
s_sp == <<" ">>

FormRecords ==
  {<<>>}
  \cup {<<Entry(K_requester, v)>> : v \in {<<>>, s_ab, s_AB_sp, s_c, s_sp}}
  \cup {<<Entry(k, s_AB_sp)>> : k \in {K_toolid, K_individualinfo, K_intro, K_bare}}
  \cup {<<Entry(K_toolid, <<>>), Entry(K_requester, s_ab)>>,
        <<Entry(K_requester, s_ab), Entry(K_toolid, s_c)>>,
        <<Entry(K_intro, s_ab), Entry(K_requester, s_c)>>,
        <<Entry(K_bare, s_AB_sp), Entry(K_intro, <<>>)>>,
        <<Entry(K_requester, s_c), Entry(K_bare, s_ab)>>,
        <<Entry(K_individualinfo, s_ab), Entry(K_intro, s_c)>>}

MatchInit ==
  /\ m_results \in SeqsUpTo(FormRecords, MaxRecords)
  /\ m_toolId \in SearchedToolIds
  /\ m_survey = NotRun
  /\ m_innovator = NotRun
  /\ m_expert = NotRun
  /\ ClsIdle
  /\ DashIdle
  /\ XlIdle
  /\ TblIdle
  /\ DecIdle

\* getSurveyData: the matching loop over data.results
MatchSurvey ==
  /\ m_survey = NotRun
  /\ m_survey' = Matched(SurveyMatchingRecords(m_results, m_toolId, 1))
  /\ UNCHANGED <<m_results, m_toolId, m_innovator, m_expert>>
  /\ UNCHANGED <<clsVars, dashVars, xlVars, tblVars, decVars>>

\* checkOverallStatus: the filter of an innovator form
MatchInnovator ==
  /\ m_innovator = NotRun
  /\ m_innovator' = Matched(InnovatorMatchingRecords(m_results, m_toolId))
  /\ UNCHANGED <<m_results, m_toolId, m_survey, m_expert>>
  /\ UNCHANGED <<clsVars, dashVars, xlVars, tblVars, decVars>>

\* checkOverallStatus: the filter of the domain expert form
MatchExpert ==
  /\ m_expert = NotRun
  /\ m_expert' = Matched(ExpertMatchingRecords(m_results, m_toolId))
  /\ UNCHANGED <<m_results, m_toolId, m_survey, m_innovator>>
  /\ UNCHANGED <<clsVars, dashVars, xlVars, tblVars, decVars>>

MatchNext == MatchSurvey \/ MatchInnovator \/ MatchExpert

SpecMatch == MatchInit /\ [][MatchNext]_vars

(***************************************************************************)
(* Claims about the matchers, under SpecMatch.                             *)
(***************************************************************************)
SurveyCandidates == <<K_toolid, K_requester, K_individualinfo, K_intro, K_bare>>
ExpertCandidates == <<K_intro, K_requester, K_bare>>

\* the value of the first candidate field that is present and not empty
ResolvedId(record, candidates) ==
  LET present == {k \in DOMAIN candidates : Truthy(record, candidates[k])} IN
  IF present = {} THEN <<>> ELSE Get(record, candidates[SetMin(present)])

SameTextRecords(results, candidates, tid) ==
  LET Test(record) == SameText(ResolvedId(record, candidates), tid)
  IN  SelectSeq(results, Test)

\* C4: in getSurveyData a record matches the target tool id exactly when its
\* resolved identifier value and the target are equal after trimming
\* surrounding white space and ignoring letter case on both sides.
C4_SurveyMatcher ==
  m_survey # NotRun =>
    m_survey.records = SameTextRecords(m_results, SurveyCandidates, m_toolId)

C4_Witness ==
  /\ m_survey # NotRun
  /\ m_toolId = s_ab
  /\ \E i \in DOMAIN m_survey.records :
       m_survey.records[i] = <<Entry(K_requester, s_AB_sp)>>
  /\ \E i \in DOMAIN m_results : m_results[i] = <<Entry(K_requester, s_c)>>

\* C5: in checkOverallStatus, for the innovator sources (fixed identifier
\* field) and the domain expert source (ordered candidate fields), a record
\* whose identifier differs from the searched tool id only by letter case or
\* surrounding white space is counted as a matching submission.
C5_StatusMatcher ==
  /\ m_innovator # NotRun =>
       m_innovator.records = SameTextRecords(m_results, <<K_requester>>, m_toolId)
  /\ m_expert # NotRun =>
       m_expert.records = SameTextRecords(m_results, ExpertCandidates, m_toolId)

(***************************************************************************)
(* The data the form provider and the schema files hold while the          *)
(* dashboard runs.                                                         *)
(***************************************************************************)
s_C_sp == <<" ","C">>
s_z == <<"z">>
s_x == <<"x">>
s_ce_data_xyz == <<"c","e"," ","d","a","t","a"," ","x","y","z">>
s_CE_econ == <<"C","E"," "," ","e","c","o","n">>
s_gesi == <<"g","e","s","i">>

ProviderData(formId) ==
  CASE formId = MAIN_FORM_ID ->
         <<MasterRecord(s_ab, s_Advance_sp), MasterRecord(s_c, s_EARLY_tab),
           MasterRecord(s_b, s_Unknown)>>
    [] formId = INNOVATOR_FORMS[1].formId ->
         <<<<Entry(K_requester, s_ab)>>, <<Entry(K_requester, s_c)>>>>
    [] formId = INNOVATOR_FORMS[2].formId ->
         <<<<Entry(K_requester, s_AB_sp)>>, <<Entry(K_requester, s_ab)>>,
           <<Entry(K_requester, s_ab)>>>>
    [] formId = INNOVATOR_FORMS[3].formId -> <<>>
    [] formId = DOMAIN_EXPERT_FORMS("advanced") ->
         <<<<Entry(K_intro, s_ab), Entry(K_expertise_advanced, s_ce_data_xyz)>>,
           <<Entry(K_requester, s_ab), Entry(K_expertise_advanced, s_CE_econ)>>>>
    [] formId = DOMAIN_EXPERT_FORMS("early") ->
         <<<<Entry(K_bare, s_C_sp), Entry(K_expertise_early, s_gesi)>>>>
    [] formId = USERTYPE3_FORMS("advanced") ->
         <<<<Entry(K_toolid, s_AB_sp), Entry(<<"group_a", "Q_1">>, s_x)>>,
           <<Entry(K_requester, s_c)>>>>
    [] formId = USERTYPE4_FORMS("advanced") ->
         <<<<Entry(K_requester, s_ab), Entry(<<"group_b", "Q_2">>, s_x),
             Entry(<<"Q_2">>, s_z)>>>>
    [] formId = USERTYPE3_FORMS("early") ->
         <<<<Entry(K_bare, s_c), Entry(<<"group_a", "Q_1">>, s_x)>>>>
    [] formId = USERTYPE4_FORMS("early") -> <<>>

Question(name, label) ==
  [name |-> name, label |-> label, type |-> "text", choices |-> <<>>]

SchemaFile(formType) ==
  CASE formType = "ut3_advance" ->
         <<Question(<<"group_toolid", Q_TOOL_ID>>, "Tool ID"),
           Question(<<"group_a", "Q_1">>, "Question 1")>>
    [] formType = "ut4_advance" ->
         <<Question(<<Q_TOOL_ID>>, "Tool ID"), Question(<<"Q_2">>, "Question 2")>>
    [] formType = "ut3_early" -> <<Question(<<"Q_1">>, "Question 1")>>
    [] formType = "ut4_early" -> <<>>

DashToolIds == {s_ab, s_C_sp, s_b, s_z, s_sp}

\* what the proxy may answer to a request for formId
DataResponses(formId) ==
  {[kind |-> "ok", results |-> ProviderData(formId)]}
  \cup (IF failuresLeft > 0
        THEN {[kind |-> "network"], [kind |-> "noresults"],
              [kind |-> "http", body |-> "Form not found. Check form ID"]}
        ELSE {})

\* what the static file server may answer to a request for /formType.xlsx
FileResponses(formType) ==
  {[kind |-> "ok", survey |-> SchemaFile(formType)]}
  \cup (IF failuresLeft > 0 THEN {[kind |-> "notok"], [kind |-> "nosheet"]} ELSE {})

Spend(resp) == IF resp.kind = "ok" THEN failuresLeft ELSE failuresLeft - 1

(***************************************************************************)
(* One call of handleSearch.  A promise slot is Unissued, Pending,         *)
(* Resolved(value), or, for a survey form that awaits its question labels, *)
(* AwaitingLabels(matchingRecords).  `order` lists the sources of the      *)
(* current Promise.all in the order their promises settled; `resp` keeps   *)
(* the kind of response each request of the search received.              *)
(***************************************************************************)
Unissued == [state |-> "unissued"]
AwaitingLabels(records) == [state |-> "labels", records |-> records]

Roles == [i \in DOMAIN INNOVATOR_FORMS |-> INNOVATOR_FORMS[i].role]
UserTypes == <<"usertype3", "usertype4">>
SchemaRequest(userType) ==
  IF userType = "usertype3" THEN "schema_usertype3" ELSE "schema_usertype4"

Requests ==
  {"main", "expert"} \cup {Roles[i] : i \in DOMAIN Roles}
  \cup {UserTypes[i] : i \in DOMAIN UserTypes}
  \cup {SchemaRequest(UserTypes[i]) : i \in DOMAIN UserTypes}

\* fetch(`/api/kobo?formId=${formId}`) of fetchData
ProxyRequest(formId) == [via |-> "proxy", name |-> formId]

\* fetch(`/${formType}.xlsx`) of loadFormSchema
FileRequest(formType) == [via |-> "file", name |-> formType]

\* checkOverallStatus up to its first await: one request per innovator form,
\* then the request for the domain expert form of the maturity level
StatusRequests(level) ==
  [i \in DOMAIN INNOVATOR_FORMS |-> ProxyRequest(INNOVATOR_FORMS[i].formId)]
    \o <<ProxyRequest(DOMAIN_EXPERT_FORMS(level))>>

\* getSurveyData up to its first await: one request per form of formsToFetch
SurveyRequests(level) ==
  [i \in DOMAIN formsToFetch(level) |-> ProxyRequest(formsToFetch(level)[i].formId)]

NewSearch(tid) ==
  [pc |-> "classify", toolId |-> tid, maturity |-> "null",
   requested |-> <<ProxyRequest(MAIN_FORM_ID)>>,
   innovators |-> [r \in {Roles[i] : i \in DOMAIN Roles} |-> Unissued],
   expert |-> Unissued,
   surveys |-> [u \in {UserTypes[i] : i \in DOMAIN UserTypes} |-> Unissued],
   order |-> <<>>,
   resp |-> [q \in Requests |-> "none"],
   outcome |-> "running"]

\* setToolId(e.target.value)
TypeToolId(v) ==
  /\ v # toolId
  /\ searchesLeft > 0
  /\ toolId' = v
  /\ UNCHANGED <<uiVars, formCache, searches, searchesLeft, failuresLeft>>
  /\ UNCHANGED <<clsVars, matchVars, xlVars, tblVars, decVars>>

\* handleSearch up to its first await
HandleSearch ==
  /\ IF trim(toolId) = <<>>
     THEN /\ error' = ErrorOf(<<Lit("Please enter a Tool ID")>>)
          /\ UNCHANGED <<loading, maturityLevel, formData, overallStatus, searches,
                         searchesLeft>>
     ELSE /\ searchesLeft > 0
          /\ searchesLeft' = searchesLeft - 1
          /\ loading' = TRUE
          /\ error' = NoError
          /\ formData' = <<>>
          /\ maturityLevel' = "null"
          /\ overallStatus' = EmptyStatus
          /\ searches' = Append(searches, NewSearch(toolId))
  /\ UNCHANGED <<toolId, formCache, failuresLeft>>
  /\ UNCHANGED <<clsVars, matchVars, xlVars, tblVars, decVars>>

\* <Button onClick={handleSearch} disabled={loading}>
ClickSearch == ~loading /\ HandleSearch

\* handleKeyPress with e.key === "Enter"
PressEnter == HandleSearch

Me(s) == searches[s]

\* mutant: the finally block is missing, loading stays as it is
HandleSearchCatch_NoFinally(s, me, message) ==
  /\ error' = ErrorOf(message)
  /\ searches' = [searches EXCEPT ![s] = [me EXCEPT !.pc = "done", !.outcome = "failed"]]
  /\ UNCHANGED <<loading, maturityLevel, formData, overallStatus>>

\* handleSearch: catch (err) { setError(err.message) } finally { setLoading(false) }
HandleSearchCatch(s, me, message) ==
  /\ error' = ErrorOf(message)
  /\ loading' = FALSE
  /\ searches' = [searches EXCEPT ![s] = [me EXCEPT !.pc = "done", !.outcome = "failed"]]
  /\ UNCHANGED <<maturityLevel, formData, overallStatus>>

\* handleSearch: setMaturityLevel(maturity), then checkOverallStatus up to its
\* first await: the three innovator requests and the domain expert request
StartStatus(s, me, maturity) ==
  /\ maturityLevel' = maturity
  /\ overallStatus' = [overallStatus EXCEPT !.loading = TRUE, !.error = NoError]
  /\ searches' =
       [searches EXCEPT ![s] =
          [me EXCEPT !.pc = "status", !.maturity = maturity,
                     !.requested = @ \o StatusRequests(maturity),
                     !.innovators = [r \in DOMAIN me.innovators |-> Pending],
                     !.expert = Pending]]
  /\ UNCHANGED <<loading, formData, error>>

\* the request of getToolMaturity for the main form settles
MasterSettles(s, resp) ==
  LET me == [Me(s) EXCEPT !.resp["main"] = resp.kind]
      r == getToolMaturity(resp, me.toolId)
  IN
  /\ Me(s).pc = "classify"
  /\ IF r.state = "rejected"
     THEN HandleSearchCatch(s, me, r.message)
     ELSE StartStatus(s, me, r.value)
  /\ failuresLeft' = Spend(resp)
  /\ UNCHANGED <<toolId, formCache, searchesLeft>>
  /\ UNCHANGED <<clsVars, matchVars, xlVars, tblVars, decVars>>

\* checkOverallStatus after await Promise.all(innovatorPromises):
\* setOverallStatus, then getAllFormData / getSurveyData up to its await
FinishStatus(s, me) ==
  /\ overallStatus' =
       [innovators |-> PromiseAll(me.innovators, Roles, me.order),
        domainExperts |-> me.expert.value,
        loading |-> FALSE, error |-> NoError]
  /\ searches' =
       [searches EXCEPT ![s] =
          [me EXCEPT !.pc = "survey", !.order = <<>>,
                     !.requested = @ \o SurveyRequests(me.maturity),
                     !.surveys = [u \in DOMAIN me.surveys |-> Pending]]]
  /\ UNCHANGED <<loading, maturityLevel, formData, error>>

\* mutant: Promise.all(innovatorPromises) is not awaited; the status holds
\* the innovator results that have settled when the domain expert fetch does
StatusStep_NoAwait(s, me) ==
  IF me.expert.state = "resolved"
  THEN /\ overallStatus' =
            [innovators |->
               LET settled == SelectSeq(Roles,
                                LAMBDA r : me.innovators[r].state = "resolved")
               IN  [i \in DOMAIN settled |-> me.innovators[settled[i]].value],
             domainExperts |-> me.expert.value,
             loading |-> FALSE, error |-> NoError]
       /\ searches' =
            [searches EXCEPT ![s] =
               [me EXCEPT !.pc = "survey", !.order = <<>>,
                          !.requested = @ \o SurveyRequests(me.maturity),
                          !.surveys = [u \in DOMAIN me.surveys |-> Pending]]]
       /\ UNCHANGED <<loading, maturityLevel, formData, error>>
  ELSE /\ searches' = [searches EXCEPT ![s] = me]
       /\ UNCHANGED uiVars

StatusStep(s, me) ==
  IF me.expert.state = "resolved" /\ AllResolved(me.innovators, Roles)
  THEN FinishStatus(s, me)
  ELSE /\ searches' = [searches EXCEPT ![s] = me]
       /\ UNCHANGED uiVars

\* the request of one innovator form settles
InnovatorSettles(s, i, resp) ==
  LET role == INNOVATOR_FORMS[i].role
      status == InnovatorStatusOf(role, INNOVATOR_FORMS[i].formId, resp, Me(s).toolId)
      me == [Me(s) EXCEPT !.innovators[role] = Resolved(status),
                          !.order = Append(@, role),
                          !.resp[role] = resp.kind]
  IN
  /\ Me(s).pc = "status"
  /\ Me(s).innovators[role] = Pending
  /\ StatusStep(s, me)
  /\ failuresLeft' = Spend(resp)
  /\ UNCHANGED <<toolId, formCache, searchesLeft>>
  /\ UNCHANGED <<clsVars, matchVars, xlVars, tblVars, decVars>>

\* the request of the domain expert form settles
ExpertSettles(s, resp) ==
  LET statuses == ExpertStatusesOf(resp, Me(s).toolId, Me(s).maturity)
      me == [Me(s) EXCEPT !.expert = Resolved(statuses), !.resp["expert"] = resp.kind]
  IN
  /\ Me(s).pc = "status"
  /\ Me(s).expert = Pending
  /\ StatusStep(s, me)
  /\ failuresLeft' = Spend(resp)
  /\ UNCHANGED <<toolId, formCache, searchesLeft>>
  /\ UNCHANGED <<clsVars, matchVars, xlVars, tblVars, decVars>>

\* handleSearch after await getAllFormData: setFormData(results), and the
\* finally block
FinishSearch(s, me) ==
  /\ formData' = PromiseAll(me.surveys, UserTypes, me.order)
  /\ loading' = FALSE
  /\ searches' = [searches EXCEPT ![s] = [me EXCEPT !.pc = "done", !.outcome = "ok"]]
  /\ UNCHANGED <<maturityLevel, error, overallStatus>>

SurveyStep(s, me) ==
  IF AllResolved(me.surveys, UserTypes)
  THEN FinishSearch(s, me)
  ELSE /\ searches' = [searches EXCEPT ![s] = me]
       /\ UNCHANGED uiVars

\* mutant: the cache is never consulted
CacheHas_Never(cache, formType) == FALSE

\* this.formCache.has(formType)
CacheHas(cache, formType) == \E k \in DOMAIN cache : cache[k].formType = formType

\* this.formCache.get(formType)!
CacheGet(cache, formType) ==
  cache[CHOOSE k \in DOMAIN cache : cache[k].formType = formType].schema

\* the request of one survey form settles; on success the records are matched
\* and the question labels come from the cache or are requested
SurveyFetchSettles(s, i, resp) ==
  LET form == formsToFetch(Me(s).maturity)[i]
      data == fetchData(resp)
      matchingRecords == SurveyMatchingRecords(data.value, Me(s).toolId, 1)
      cached == CacheHas(formCache, form.formType)
      schema == CacheGet(formCache, form.formType)
      slot == IF data.state = "rejected"
              THEN Resolved(SurveyCaught(form, Me(s).maturity, data.message))
              ELSE IF cached
              THEN Resolved(SurveyLoaded(form, Me(s).maturity, matchingRecords, schema))
              ELSE AwaitingLabels(matchingRecords)
      me == [Me(s) EXCEPT !.surveys[form.userType] = slot,
                          !.order = IF slot.state = "resolved"
                                    THEN Append(@, form.userType) ELSE @,
                          !.requested = IF slot.state = "labels"
                                        THEN Append(@, FileRequest(form.formType))
                                        ELSE @,
                          !.resp[form.userType] = resp.kind]
  IN
  /\ Me(s).pc = "survey"
  /\ Me(s).surveys[form.userType] = Pending
  /\ SurveyStep(s, me)
  /\ failuresLeft' = Spend(resp)
  /\ UNCHANGED <<toolId, formCache, searchesLeft>>
  /\ UNCHANGED <<clsVars, matchVars, xlVars, tblVars, decVars>>

\* formCache.set(formType, result)
CacheSet(cache, formType, schema) ==
  IF \E k \in DOMAIN cache : cache[k].formType = formType
  THEN [k \in DOMAIN cache |->
          IF cache[k].formType = formType
          THEN [formType |-> formType, schema |-> schema] ELSE cache[k]]
  ELSE Append(cache, [formType |-> formType, schema |-> schema])

\* the request of loadFormSchema for the definition file settles
SchemaFetchSettles(s, i, fileResp) ==
  LET form == formsToFetch(Me(s).maturity)[i]
      loaded == loadFormSchema(fileResp, form.formType)
      matchingRecords == Me(s).surveys[form.userType].records
      slot == IF loaded.kind = "throw"
              THEN Resolved(SurveyExcelCaught(form, Me(s).maturity, matchingRecords,
                                              loaded.message))
              ELSE Resolved(SurveyLoaded(form, Me(s).maturity, matchingRecords,
                                         loaded.value))
      me == [Me(s) EXCEPT !.surveys[form.userType] = slot,
                          !.order = Append(@, form.userType),
                          !.resp[SchemaRequest(form.userType)] = fileResp.kind]
  IN
  /\ Me(s).pc = "survey"
  /\ Me(s).surveys[form.userType].state = "labels"
  /\ formCache' = IF loaded.kind = "throw" THEN formCache
                  ELSE CacheSet(formCache, form.formType, loaded.value)
  /\ SurveyStep(s, me)
  /\ failuresLeft' = Spend(fileResp)
  /\ UNCHANGED <<toolId, searchesLeft>>
  /\ UNCHANGED <<clsVars, matchVars, xlVars, tblVars, decVars>>

(***************************************************************************)
(* Spec: the dashboard with searches that may overlap, every request       *)
(* answered.  SpecAgg: one search, with requests that fail.                *)
(***************************************************************************)
FirstRender ==
  /\ toolId = <<>>
  /\ loading = FALSE
  /\ maturityLevel = "null"
  /\ formData = <<>>
  /\ error = NoError
  /\ overallStatus = EmptyStatus
  /\ formCache = <<>>
  /\ searches = <<>>
  /\ ClsIdle
  /\ MatchIdle
  /\ XlIdle
  /\ TblIdle
  /\ DecIdle

Init ==
  /\ FirstRender
  /\ searchesLeft = MaxSearches
  /\ failuresLeft = 0

InitAgg ==
  /\ FirstRender
  /\ searchesLeft = 1
  /\ failuresLeft = MaxFailures

Type == \E v \in DashToolIds : TypeToolId(v)
Master == \E s \in DOMAIN searches : \E resp \in DataResponses(MAIN_FORM_ID) :
            MasterSettles(s, resp)
Innovator ==
  \E s \in DOMAIN searches : \E i \in DOMAIN INNOVATOR_FORMS :
    \E resp \in DataResponses(INNOVATOR_FORMS[i].formId) : InnovatorSettles(s, i, resp)
Expert ==
  \E s \in DOMAIN searches :
    \E resp \in DataResponses(DOMAIN_EXPERT_FORMS(Me(s).maturity)) : ExpertSettles(s, resp)
Survey ==
  \E s \in DOMAIN searches : \E i \in DOMAIN UserTypes :
    \E resp \in DataResponses(formsToFetch(Me(s).maturity)[i].formId) :
      SurveyFetchSettles(s, i, resp)
Schema ==
  \E s \in DOMAIN searches : \E i \in DOMAIN UserTypes :
    \E fileResp \in FileResponses(formsToFetch(Me(s).maturity)[i].formType) :
      SchemaFetchSettles(s, i, fileResp)

Next ==
  \/ Type
  \/ ClickSearch
  \/ PressEnter
  \/ Master
  \/ Innovator
  \/ Expert
  \/ Survey
  \/ Schema

Spec == Init /\ [][Next]_vars

SpecAgg == InitAgg /\ [][Next]_vars

(***************************************************************************)
(* Claims about the aggregation of the per-source fetches, under SpecAgg.  *)
(***************************************************************************)
Failed(kind) == kind \notin {"ok", "none"}
Finished(s) == searches[s].pc = "done" /\ searches[s].outcome = "ok"
RoleLabels == <<"Leadership", "Technical", "Project Manager">>

\* the search whose getAllFormData produced the form data on display
ShownSearches == {s \in DOMAIN searches : Finished(s)}
\* the search whose checkOverallStatus produced the status on display
StatusSearches == {s \in DOMAIN searches : searches[s].pc \in {"survey", "done"}
                                           /\ searches[s].outcome # "failed"}

\* C1: getSurveyData returns exactly one result per source in the order
\* usertype3, usertype4, and checkOverallStatus yields exactly one innovator
\* status per role in the order leadership, technical, projectManager, for
\* every maturity and completion order; a failed source keeps its position
\* and the other positions are populated.
C1_ResultOrder ==
  /\ \A s \in ShownSearches :
       LET forms == formsToFetch(searches[s].maturity) IN
       /\ Len(formData) = Len(UserTypes)
       /\ \A i \in DOMAIN formData :
            /\ formData[i].userType = UserTypes[i]
            /\ formData[i].formId = forms[i].formId
            /\ formData[i].maturityLevel = searches[s].maturity
            /\ Failed(searches[s].resp[UserTypes[i]]) => formData[i].error.set
            /\ (searches[s].resp[UserTypes[i]] = "ok"
                  /\ searches[s].resp[SchemaRequest(UserTypes[i])] = "ok")
                 => ~formData[i].error.set
  /\ \A s \in StatusSearches :
       /\ Len(overallStatus.innovators) = Len(INNOVATOR_FORMS)
       /\ \A i \in DOMAIN overallStatus.innovators :
            /\ overallStatus.innovators[i].role = RoleLabels[i]
            /\ overallStatus.innovators[i].formId = INNOVATOR_FORMS[i].formId
            /\ Failed(searches[s].resp[Roles[i]]) <=>
                 overallStatus.innovators[i].error.set

C1_Witness ==
  /\ ShownSearches # {}
  /\ \E s \in ShownSearches :
       /\ searches[s].order = <<"usertype4", "usertype3">>
       /\ Failed(searches[s].resp["usertype3"])
       /\ Failed(searches[s].resp["technical"])
  /\ formData[1].error.set
  /\ formData[2].data # <<>>
  /\ ~formData[2].error.set
  /\ overallStatus.innovators[1].submitted
  /\ overallStatus.innovators[2].error.set
  /\ ~overallStatus.innovators[3].error.set

\* what a source yields when every request is answered
CleanSurvey(form, level, tid) ==
  SurveyLoaded(form, level,
               SurveyMatchingRecords(ProviderData(form.formId), tid, 1),
               [survey |-> SchemaFile(form.formType)])
CleanInnovator(i, tid) ==
  InnovatorStatusOf(Roles[i], INNOVATOR_FORMS[i].formId,
                    [kind |-> "ok", results |-> ProviderData(INNOVATOR_FORMS[i].formId)],
                    tid)

\* C2: when the fetch of one source fails (network error, non-success status,
\* no results list) the aggregation does not reject; the result of that
\* source carries an error message and no matched records, and the results
\* of the other sources are what they are when no source fails.
C2_FailureCaptured ==
  /\ \A s \in DOMAIN searches :
       (\E q \in Requests \ {"main"} : Failed(searches[s].resp[q]))
         => searches[s].outcome # "failed"
  /\ \A s \in ShownSearches :
       LET me == searches[s]
           forms == formsToFetch(me.maturity)
       IN  \A i \in DOMAIN forms :
             LET u == forms[i].userType IN
             /\ Failed(me.resp[u]) =>
                  /\ formData[i].error.set
                  /\ formData[i].error.message # <<>>
                  /\ formData[i].data = <<>>
             /\ (me.resp[u] = "ok" /\ me.resp[SchemaRequest(u)] = "ok") =>
                  formData[i] = CleanSurvey(forms[i], me.maturity, me.toolId)
  /\ \A s \in StatusSearches :
       \A i \in DOMAIN INNOVATOR_FORMS :
         /\ Failed(searches[s].resp[Roles[i]]) =>
              /\ overallStatus.innovators[i].error.set
              /\ overallStatus.innovators[i].error.message # <<>>
              /\ ~overallStatus.innovators[i].submitted
              /\ overallStatus.innovators[i].submissionCount = 0
         /\ searches[s].resp[Roles[i]] = "ok" =>
              overallStatus.innovators[i] = CleanInnovator(i, searches[s].toolId)

C2_Witness ==
  /\ ShownSearches # {}
  /\ \E s \in ShownSearches :
       /\ searches[s].resp["usertype4"] = "noresults"
       /\ searches[s].resp["leadership"] = "http"
       /\ searches[s].resp["usertype3"] = "ok"
  /\ formData[2].error.set
  /\ formData[2].data = <<>>
  /\ formData[1].data # <<>>
  /\ formData[1].questions # <<>>
  /\ overallStatus.innovators[1].error.set
  /\ overallStatus.innovators[2].submissionCount = 2

(***************************************************************************)
(* Claims about handleSearch.                                              *)
(***************************************************************************)
MainMatches(tid) ==
  {i \in DOMAIN ProviderData(MAIN_FORM_ID) :
     SameText(FieldOrEmpty(ProviderData(MAIN_FORM_ID)[i], TOOL_ID_FIELD), tid)}

\* the three ways the classification of a search fails
ClassificationFails(me) ==
  \/ Failed(me.resp["main"])
  \/ MainMatches(me.toolId) = {}
  \/ LET first == ProviderData(MAIN_FORM_ID)[SetMin(MainMatches(me.toolId))] IN
     \A w \in AdvancedWords \cup EarlyWords :
       ~SameText(FieldOrEmpty(first, MATURITY_FIELD), w)

\* C10: if getToolMaturity fails (tool not found, invalid maturity, master
\* fetch failure), handleSearch issues no innovator, domain expert or survey
\* fetch, leaves maturity level null, overall status empty and form data
\* empty, sets one search-level error message and ends with loading false.
C10_ClassificationAborts ==
  \A s \in DOMAIN searches :
    LET me == searches[s] IN
    (me.pc # "classify" /\ ClassificationFails(me)) =>
      /\ me.pc = "done" /\ me.outcome = "failed"
      /\ \A q \in Requests \ {"main"} : me.resp[q] = "none"
      /\ \A r \in DOMAIN me.innovators : me.innovators[r] = Unissued
      /\ me.expert = Unissued
      /\ \A u \in DOMAIN me.surveys : me.surveys[u] = Unissued
      /\ maturityLevel = "null"
      /\ overallStatus = EmptyStatus
      /\ formData = <<>>
      /\ error.set /\ error.message # <<>>
      /\ ~loading

C10_Witness ==
  /\ Len(searches) = 1
  /\ searches[1].toolId = s_b
  /\ searches[1].resp["main"] = "ok"
  /\ searches[1].outcome = "failed"
  /\ error.set
  /\ ~loading
  /\ maturityLevel = "null"

\* C3: once a new search has started while an earlier one is pending, no
\* result of the earlier search (maturity level, overall status, form data,
\* error, loading flag) is written to the shared UI state.
C3_StaleSuppressed ==
  [][\A s \in DOMAIN searches :
       (s < Len(searches) /\ searches'[s] # searches[s]) => UNCHANGED uiVars]_vars

InFlight(slot) == slot.state \in {"pending", "labels"}

\* C11: getSurveyData, and the innovator / domain expert step of
\* checkOverallStatus, complete only after every fetch they issued has
\* settled, with a result or with a captured failure; a failed source never
\* makes the call complete while another source's fetch is in flight.
C11_SettleAll ==
  /\ \A s \in DOMAIN searches :
       LET me == searches[s] IN
       /\ (me.pc \in {"survey", "done"} /\ me.outcome # "failed") =>
            /\ \A r \in DOMAIN me.innovators :
                 ~InFlight(me.innovators[r]) /\ me.resp[r] # "none"
            /\ ~InFlight(me.expert) /\ me.resp["expert"] # "none"
       /\ (me.pc = "done" /\ me.outcome = "ok") =>
            \A u \in DOMAIN me.surveys :
              ~InFlight(me.surveys[u]) /\ me.resp[u] # "none"
  /\ overallStatus.innovators # <<>> => StatusSearches # {}
  /\ formData # <<>> => ShownSearches # {}

\* a failed source has settled, another source is in flight, the call waits
C11_Witness ==
  /\ Len(searches) = 1
  /\ searches[1].pc = "survey"
  /\ Failed(searches[1].resp["usertype3"])
  /\ searches[1].surveys["usertype4"] = Pending
  /\ Failed(searches[1].resp["leadership"])
  /\ formData = <<>>
  /\ loading

(***************************************************************************)
(* Further claims about the matchers, under SpecMatch.                     *)
(***************************************************************************)
\* the candidate fields that hold a non-empty value, by position in the list
Populated(record, candidates) ==
  {k \in DOMAIN candidates : Has(record, candidates[k])
                             /\ Get(record, candidates[k]) # <<>>}

IsIn(record, records) == \E i \in DOMAIN records : records[i] = record

\* equality up to surrounding white space only
SameTrimmed(a, b) == Core(a) = Core(b)

\* C12: the matcher probes the candidate identifier fields in a fixed order
\* and compares the first non-empty one with the target; when the first
\* candidate is empty or absent and a later one is populated, the later
\* field's value is the one compared.
C12_OrderedFallback ==
  \A i \in DOMAIN m_results :
    LET record == m_results[i]
        ps == Populated(record, SurveyCandidates)
        pe == Populated(record, ExpertCandidates)
    IN
    /\ (m_survey # NotRun /\ ps # {}) =>
         (IsIn(record, m_survey.records)
            <=> SameText(Get(record, SurveyCandidates[SetMin(ps)]), m_toolId))
    /\ (m_expert # NotRun /\ pe # {}) =>
         (IsIn(record, m_expert.records)
            <=> SameTrimmed(Get(record, ExpertCandidates[SetMin(pe)]), m_toolId))

C12_Witness ==
  /\ m_survey # NotRun
  /\ m_expert # NotRun
  /\ m_toolId = s_ab
  /\ IsIn(<<Entry(K_toolid, <<>>), Entry(K_requester, s_ab)>>, m_survey.records)
  /\ IsIn(<<Entry(K_requester, s_ab), Entry(K_toolid, s_c)>>, m_results)
  /\ ~IsIn(<<Entry(K_requester, s_ab), Entry(K_toolid, s_c)>>, m_survey.records)
  /\ IsIn(<<Entry(K_requester, s_ab), Entry(K_toolid, s_c)>>, m_expert.records)

\* C13: for every target tool id, also an empty or white-space one, a record
\* in which every candidate identifier field is absent or empty is not among
\* the matched records.
C13_NoIdentifierNoMatch ==
  \A i \in DOMAIN m_results :
    LET record == m_results[i] IN
    /\ (m_survey # NotRun /\ Populated(record, SurveyCandidates) = {})
         => ~IsIn(record, m_survey.records)
    /\ (m_innovator # NotRun /\ Populated(record, <<K_requester>>) = {})
         => ~IsIn(record, m_innovator.records)

\* the part of C13 the code satisfies: a target with visible text
NoIdentifierNoMatchForInkedTarget ==
  Core(m_toolId) # <<>> => C13_NoIdentifierNoMatch

\* the positions of the fetched records whose identifier equals the target
SurveyHits ==
  {i \in DOMAIN m_results :
     SameText(ResolvedId(m_results[i], SurveyCandidates), m_toolId)}

\* C14: the matched records are a subsequence of the fetched records in their
\* original relative order, each matching record once and no other record,
\* and the fetched list and its records are not modified.
C14_PureOrderPreserving ==
  /\ [](m_survey # NotRun =>
          \E f \in [DOMAIN m_survey.records -> DOMAIN m_results] :
            /\ \A j, k \in DOMAIN f : j < k => f[j] < f[k]
            /\ {f[j] : j \in DOMAIN f} = SurveyHits
            /\ \A j \in DOMAIN f : m_survey.records[j] = m_results[f[j]])
  /\ [][m_results' = m_results]_vars

C14_Witness ==
  /\ m_survey # NotRun
  /\ Len(m_results) = 2
  /\ m_results[1] # m_results[2]
  /\ m_survey.records = m_results

(***************************************************************************)
(* SpecCache: the ExcelFormParser of one API client.  Its callers are      *)
(* getSurveyData calls, each awaiting getQuestionLabels(formType), which   *)
(* awaits loadFormSchema(formType); clearCache may be called in between.   *)
(* A call is fetching its definition file, has returned a schema (with the *)
(* question list getSurveyData derives from it), or has thrown.            *)
(***************************************************************************)
XlFormTypes == {getFormType("usertype3", "advanced"), getFormType("usertype4", "advanced")}

\* calledAt, clears: the number of clearCache calls made before the call
\* started and before it returned
Fetching(formType, calledAt) ==
  [formType |-> formType, state |-> "fetching", fetched |-> TRUE,
   calledAt |-> calledAt]
Returned(formType, schema, fetched, calledAt, clears) ==
  [formType |-> formType, state |-> "returned", fetched |-> fetched,
   schema |-> schema,
   questions |-> NormalizeQuestions(getQuestionLabels(schema)),
   calledAt |-> calledAt, clears |-> clears]
Thrown(formType, message, calledAt) ==
  [formType |-> formType, state |-> "thrown", fetched |-> TRUE, message |-> message,
   calledAt |-> calledAt]

\* mutant: the group prefix is stripped in place, on the cached questions
CacheAfterMap_InPlace(cache, formType) ==
  [k \in DOMAIN cache |->
     IF cache[k].formType = formType
     THEN [cache[k] EXCEPT !.schema.survey = NormalizeQuestions(@)]
     ELSE cache[k]]

\* schema.survey.map(q => ({...})) and questions.map(q => ({...q, name}))
\* build new objects: the cached schema is as it was
CacheAfterMap(cache, formType) == cache

\* mutant: a failed load leaves an empty schema in the cache
CacheAfterThrow_Poisoned(cache, formType) ==
  CacheSet(cache, formType, [survey |-> <<>>])

\* the catch of loadFormSchema logs and rethrows: the cache is as it was
CacheAfterThrow(cache, formType) == cache

\* a new KoboApiClient: an empty cache, no call yet; no search is made
XlInit ==
  /\ FirstRender
  /\ searchesLeft = 0
  /\ failuresLeft = MaxFailures

\* getQuestionLabels(formType): loadFormSchema up to its cache check and fetch
XlLoadCall(formType) ==
  /\ Len(xl_calls) < MaxLoads
  /\ IF CacheHas(formCache, formType)
     THEN /\ xl_calls' = Append(xl_calls,
                           Returned(formType, CacheGet(formCache, formType), FALSE,
                                    xl_clears, xl_clears))
          /\ formCache' = CacheAfterMap(formCache, formType)
     ELSE /\ xl_calls' = Append(xl_calls, Fetching(formType, xl_clears))
          /\ UNCHANGED formCache
  /\ UNCHANGED <<xl_clears, toolId, uiVars, searches, searchesLeft, failuresLeft>>
  /\ UNCHANGED <<clsVars, matchVars, tblVars, decVars>>

\* the fetch of /formType.xlsx of call c settles
XlLoadSettles(c, fileResp) ==
  LET formType == xl_calls[c].formType
      loaded == loadFormSchema(fileResp, formType)
  IN
  /\ xl_calls[c].state = "fetching"
  /\ IF loaded.kind = "throw"
     THEN /\ xl_calls' = [xl_calls EXCEPT ![c] =
                            Thrown(formType, loaded.message, xl_calls[c].calledAt)]
          /\ formCache' = CacheAfterThrow(formCache, formType)
     ELSE /\ xl_calls' = [xl_calls EXCEPT ![c] =
                            Returned(formType, loaded.value, TRUE, xl_calls[c].calledAt,
                                     xl_clears)]
          /\ formCache' = CacheAfterMap(CacheSet(formCache, formType, loaded.value),
                                        formType)
  /\ failuresLeft' = Spend(fileResp)
  /\ UNCHANGED <<xl_clears, toolId, uiVars, searches, searchesLeft>>
  /\ UNCHANGED <<clsVars, matchVars, tblVars, decVars>>

\* clearCache(): this.formCache.clear()
XlClearCache ==
  /\ xl_clears < MaxClears
  /\ xl_clears' = xl_clears + 1
  /\ formCache' = <<>>
  /\ UNCHANGED <<xl_calls, toolId, uiVars, searches, searchesLeft, failuresLeft>>
  /\ UNCHANGED <<clsVars, matchVars, tblVars, decVars>>

XlLoad == \E formType \in XlFormTypes : XlLoadCall(formType)
XlSettle ==
  \E c \in DOMAIN xl_calls : \E fileResp \in FileResponses(xl_calls[c].formType) :
    XlLoadSettles(c, fileResp)

XlNext == XlLoad \/ XlSettle \/ XlClearCache

SpecCache == XlInit /\ [][XlNext]_vars

(***************************************************************************)
(* Claims about the schema cache, under SpecCache.                         *)
(***************************************************************************)
\* this step starts a call of loadFormSchema
CallStarts == Len(xl_calls') = Len(xl_calls) + 1
NewCall == xl_calls'[Len(xl_calls')]

\* C15: after loadFormSchema has completed successfully for a category, every
\* later call for that category with no clearCache in between returns a
\* structurally equal schema and fetches no definition file.
C15_CacheIdempotent ==
  [][CallStarts =>
       \A c \in DOMAIN xl_calls :
         (/\ xl_calls[c].formType = NewCall.formType
          /\ xl_calls[c].state = "returned"
          /\ xl_calls[c].clears = xl_clears)
           => /\ NewCall.state = "returned"
              /\ ~NewCall.fetched
              /\ NewCall.schema = xl_calls[c].schema
              /\ NewCall.questions = xl_calls[c].questions]_vars

C15_Witness ==
  /\ Len(xl_calls) >= 2
  /\ xl_calls[1].state = "returned" /\ xl_calls[1].fetched
  /\ xl_calls[2].formType = xl_calls[1].formType
  /\ xl_calls[2].state = "returned" /\ ~xl_calls[2].fetched
  /\ xl_calls[2].schema = xl_calls[1].schema
  /\ xl_calls[2].schema.survey # <<>>
  /\ xl_clears = 0

\* every cached entry is the schema its definition file holds
CacheHoldsFiles ==
  \A k \in DOMAIN formCache :
    formCache[k].schema = [survey |-> SchemaFile(formCache[k].formType)]

\* a step that is not a clearCache keeps every cached entry as it is
CacheKept ==
  xl_clears' = xl_clears =>
    \A k \in DOMAIN formCache :
      \E j \in DOMAIN formCache' : formCache'[j] = formCache[k]

\* the part of C16 the code satisfies: a cached entry stays present and
\* unchanged until a clearCache
CacheEntryStable == []CacheHoldsFiles /\ [][CacheKept]_vars

\* C16: a cached schema stays present and unchanged across loads of any
\* category (successful or failed), lookups and getSurveyData calls; only
\* clearCache removes it, and the next load of the category after that
\* clearCache fetches the definition again.
C16_CacheLifetime ==
  /\ []CacheHoldsFiles
  /\ [][/\ CacheKept
        /\ (/\ CallStarts
            /\ \E c \in DOMAIN xl_calls :
                 /\ xl_calls[c].formType = NewCall.formType
                 /\ xl_calls[c].state = "returned"
                 /\ xl_calls[c].clears < xl_clears
            /\ \A c \in DOMAIN xl_calls :
                 xl_calls[c].formType = NewCall.formType
                   => xl_calls[c].calledAt < xl_clears)
             => NewCall.fetched]_vars

(***************************************************************************)
(* Further claims about getSurveyData, under SpecAgg.                      *)
(***************************************************************************)
\* C17: when the schema of one survey source cannot be loaded, getSurveyData
\* still resolves; the result of that source carries an error and an empty
\* question list, and the records and questions of the other source are
\* what they are when every schema loads.
C17_SchemaFailureContained ==
  /\ \A s \in DOMAIN searches :
       (\E u \in DOMAIN searches[s].surveys :
          Failed(searches[s].resp[SchemaRequest(u)]))
         => /\ searches[s].outcome # "failed"
            /\ (\A u \in DOMAIN searches[s].surveys :
                  ~InFlight(searches[s].surveys[u])) => Finished(s)
  /\ \A s \in ShownSearches :
       LET me == searches[s]
           forms == formsToFetch(me.maturity)
       IN  \A i \in DOMAIN forms :
             Failed(me.resp[SchemaRequest(forms[i].userType)]) =>
               /\ formData[i].error.set
               /\ formData[i].error.message # <<>>
               /\ formData[i].questions = <<>>
               /\ \A j \in DOMAIN forms \ {i} :
                    (/\ me.resp[forms[j].userType] = "ok"
                     /\ me.resp[SchemaRequest(forms[j].userType)] = "ok")
                      => /\ formData[j].data
                              = CleanSurvey(forms[j], me.maturity, me.toolId).data
                         /\ formData[j].questions
                              = CleanSurvey(forms[j], me.maturity, me.toolId).questions
                         /\ ~formData[j].error.set

C17_Witness ==
  /\ ShownSearches # {}
  /\ \E s \in ShownSearches :
       /\ searches[s].resp[SchemaRequest("usertype3")] = "notok"
       /\ searches[s].resp[SchemaRequest("usertype4")] = "ok"
  /\ formData[1].error.set
  /\ formData[1].questions = <<>>
  /\ formData[2].questions # <<>>
  /\ formData[2].data # <<>>

(***************************************************************************)
(* DataTable (data-table.tsx): the columns and the rows its useMemo        *)
(* computes from the props data and questions, with the date filter in its *)
(* initial state (enabled: false), so filteredRawData is data.             *)
(***************************************************************************)
MaxShown == 2

\* the field names of the model that start with '_'
UnderscoreNames == {"_id", "__version__"}

\* !key.startsWith('_') && !key.startsWith('formhub/') &&
\* !key.startsWith('meta/') && key !== '__version__'
IsDisplayField(key) ==
  /\ key[1] \notin UnderscoreNames
  /\ ~(Len(key) > 1 /\ key[1] \in {"formhub", "meta"})
  /\ key # <<"__version__">>

\* Object.keys(filteredRawData[0] || {}).filter(...)
orderedFields(filteredRawData) ==
  LET firstRecord == IF filteredRawData = <<>> THEN <<>> ELSE filteredRawData[1]
  IN  SelectSeq([i \in DOMAIN firstRecord |-> firstRecord[i].key], IsDisplayField)

\* questions.find(q => q.name === normalizedField || q.name === fieldName),
\* as a list of at most one question
FindQuestion(questions, fieldName) ==
  LET normalizedField == StripPrefix(fieldName)
      found == {i \in DOMAIN questions :
                  \/ questions[i].name = normalizedField
                  \/ questions[i].name = fieldName}
  IN  IF found = {} THEN <<>> ELSE <<questions[SetMin(found)]>>

\* the column of a question that was found
Column(fieldName, question) ==
  [key |-> fieldName,
   label |-> IF question.label = "" THEN "Unknown Question" ELSE question.label,
   type |-> IF question.type = "" THEN "text" ELSE question.type,
   choices |-> question.choices]

\* orderedFields.map(...).filter(Boolean)
RECURSIVE MapFields(_, _)
MapFields(fields, questions) ==
  IF fields = <<>> THEN <<>>
  ELSE LET question == FindQuestion(questions, Head(fields))
       IN  (IF question = <<>> THEN <<>>
            ELSE <<Column(Head(fields), question[1])>>)
           \o MapFields(Tail(fields), questions)

\* a.key.includes('toolid') || a.key.includes('Q_13110000'), on the field
\* names of the model
IsToolIdColumn(col) ==
  \E i \in DOMAIN col.key : col.key[i] \in {"group_toolid", Q_TOOL_ID}

IsOtherColumn(col) == ~IsToolIdColumn(col)

\* the stable sort that puts the tool id column first
SortColumns(cols) ==
  SelectSeq(cols, IsToolIdColumn) \o SelectSeq(cols, IsOtherColumn)

displayColumns(filteredRawData, questions) ==
  SortColumns(MapFields(orderedFields(filteredRawData), questions))

\* mutant: the stored value is shown as it is
ChoiceLabel_NoLookup(col, value) == value

\* col.choices.find(c => c.name === value), then choice.label
ChoiceLabel(col, value) ==
  LET found == {i \in DOMAIN col.choices : col.choices[i].name = value}
  IN  IF value # <<>> /\ found # {} THEN col.choices[SetMin(found)].label
      ELSE value

\* processedRecord[col.key] = value ?? '-'; no value of the model is a
\* timestamp, so the date formatting leaves every value as it is
Cell(record, col) ==
  IF Has(record, col.key) THEN ChoiceLabel(col, Get(record, col.key))
  ELSE <<"-">>

tableData(filteredRawData, cols) ==
  [n \in DOMAIN filteredRawData |->
     [c \in DOMAIN cols |-> Entry(cols[c].key, Cell(filteredRawData[n], cols[c]))]]

Rendered(data, questions) ==
  [state |-> "rendered",
   displayColumns |-> displayColumns(data, questions),
   tableData |-> tableData(data, displayColumns(data, questions))]

(***************************************************************************)
(* SpecTable: getSurveyData's callback on one fetched form with its        *)
(* definition file, then the DataTable of the form's card.                 *)
(***************************************************************************)
TblToolId == s_ab
TblForm == formsToFetch("advanced")[1]

TblFields ==
  <<Entry(<<"group_a", "Q_2">>, s_x), Entry(<<"group_b", "Q_2">>, s_z),
    Entry(<<"_id">>, s_b)>>

RECURSIVE Pick(_, _, _)
Pick(seq, S, i) ==
  IF i > Len(seq) THEN <<>>
  ELSE (IF i \in S THEN <<seq[i]>> ELSE <<>>) \o Pick(seq, S, i + 1)

\* submissions: a tool id under group_toolid, then any of the other fields
TblRecords ==
  {<<Entry(K_toolid, id)>> \o Pick(TblFields, S, 1) :
     id \in {s_AB_sp, s_c}, S \in SUBSET DOMAIN TblFields}

s_Ex == <<"E","x">>
s_Bee == <<"B","e","e">>

\* a select question with its list of choices attached
SelectQuestion(name, label, choices) ==
  [name |-> name, label |-> label, type |-> "select_one", choices |-> choices]

TblChoices == <<[name |-> s_x, label |-> s_Ex], [name |-> s_b, label |-> s_Bee]>>

TblSurveys ==
  {<<Question(K_toolid, "Tool ID"), Question(<<"group_a", "Q_2">>, "Question 2")>>,
   <<Question(<<Q_TOOL_ID>>, "Tool ID"),
     SelectQuestion(<<"Q_2">>, "Question 2", TblChoices)>>,
   <<Question(<<"group_a", "Q_2">>, "Question 2"),
     Question(<<"group_b", "Q_2">>, "Question 2b")>>,
   <<Question(<<"Q_2">>, "Question 2")>>}

TblInit ==
  /\ t_results \in SeqsUpTo(TblRecords, MaxShown)
  /\ t_survey \in TblSurveys
  /\ t_form = NotRun
  /\ t_table = NotRun
  /\ t_choice = NotRun
  /\ ClsIdle
  /\ MatchIdle
  /\ DashIdle
  /\ searches = <<>>
  /\ searchesLeft = 0
  /\ failuresLeft = 0
  /\ XlIdle
  /\ DecIdle

\* the callback of getSurveyData returns after both try blocks
TblSurveyLoaded ==
  /\ t_form = NotRun
  /\ t_form' = Resolved(SurveyLoaded(TblForm, "advanced",
                                     SurveyMatchingRecords(t_results, TblToolId, 1),
                                     [survey |-> t_survey]))
  /\ UNCHANGED <<t_results, t_survey, t_table, t_choice>>
  /\ UNCHANGED <<clsVars, matchVars, dashVars, xlVars, decVars>>

\* form.data.length > 0 ? <DataTable data={form.data} questions={...} />
TblRender ==
  /\ t_form # NotRun
  /\ t_form.value.data # <<>>
  /\ t_table = NotRun
  /\ t_table' = Rendered(t_form.value.data, t_form.value.questions)
  /\ UNCHANGED <<t_results, t_survey, t_form, t_choice>>
  /\ UNCHANGED <<clsVars, matchVars, dashVars, xlVars, decVars>>

\* ExcelFormParser.getChoiceLabel on the schema loadFormSchema returns
getChoiceLabel(schema, fieldName, choiceValue) ==
  LET named == {i \in DOMAIN schema.survey : schema.survey[i].name = fieldName}
      question == schema.survey[SetMin(named)]
      chosen == {i \in DOMAIN question.choices : question.choices[i].name = choiceValue}
  IN  IF named # {} /\ question.choices # <<>>
      THEN (IF chosen # {} THEN question.choices[SetMin(chosen)].label ELSE choiceValue)
      ELSE choiceValue

TblFieldNames == {<<"Q_2">>, <<"group_a", "Q_2">>, <<"Q_3">>}
TblValues == {s_x, s_z, s_b}

\* a call of getChoiceLabel for the form shown settles; the schema comes
\* from the cache
TblGetChoiceLabel(fieldName, choiceValue) ==
  /\ t_table # NotRun
  /\ t_choice = NotRun
  /\ t_choice' = [state |-> "returned", fieldName |-> fieldName,
                  choiceValue |-> choiceValue,
                  label |-> getChoiceLabel([survey |-> t_survey], fieldName, choiceValue)]
  /\ UNCHANGED <<t_results, t_survey, t_form, t_table>>
  /\ UNCHANGED <<clsVars, matchVars, dashVars, xlVars, decVars>>

TblChoice ==
  \E fieldName \in TblFieldNames : \E choiceValue \in TblValues :
    TblGetChoiceLabel(fieldName, choiceValue)

TblNext == TblSurveyLoaded \/ TblRender \/ TblChoice

SpecTable == TblInit /\ [][TblNext]_vars

(***************************************************************************)
(* Claims about the displayed columns, under SpecTable.                    *)
(***************************************************************************)
\* the fetched records whose tool id is the searched one
TblMatches ==
  LET Test(record) == SameText(Get(record, K_toolid), TblToolId)
  IN  SelectSeq(t_results, Test)

Bare(key) == <<key[Len(key)]>>

HasSchemaEntry(key) ==
  \E q \in DOMAIN t_survey : Bare(t_survey[q].name) = Bare(key)

\* the labels of the choices named like the value
LabelsFor(choices, value) ==
  {choices[i].label : i \in {j \in DOMAIN choices : choices[j].name = value}}

\* shown is the value, or the label of a choice named like it when there is one
Resolves(choices, value, shown) ==
  IF LabelsFor(choices, value) = {} THEN shown = value
  ELSE shown \in LabelsFor(choices, value)

\* the choices of the first schema entry with the bare name, if any
ChoicesNamed(name) ==
  LET entries == {q \in DOMAIN t_survey : Bare(t_survey[q].name) = name}
  IN  IF entries = {} THEN <<>> ELSE t_survey[SetMin(entries)].choices

ColumnsNamed(name) ==
  {c \in DOMAIN t_table.displayColumns : t_table.displayColumns[c].key = name}

\* C18: for every matched record, each field whose bare name has a schema
\* entry is displayed under that bare name in exactly one column, and the
\* record's row shows the field's value (or its choice label) there; no
\* such field is dropped and none is shown twice, also when two keys of one
\* record share a bare name.
C18_OneToOneDisplay ==
  t_table # NotRun =>
    \A n \in DOMAIN TblMatches : \A e \in DOMAIN TblMatches[n] :
      LET field == TblMatches[n][e] IN
      HasSchemaEntry(field.key) =>
        /\ Cardinality(ColumnsNamed(Bare(field.key))) = 1
        /\ \A c \in ColumnsNamed(Bare(field.key)) :
             Resolves(ChoicesNamed(Bare(field.key)), field.value,
                      t_table.tableData[n][c].value)

\* what does hold: no column is shown twice, the columns are the bare names
\* of the first matched record's fields that have a schema entry, and a
\* row shows under a bare name the value of the record's last key with it
\* (for a question without choices)
ColumnsOfFirstRecordOnce ==
  t_table # NotRun =>
    /\ \A c \in DOMAIN t_table.displayColumns :
         /\ Cardinality(ColumnsNamed(t_table.displayColumns[c].key)) = 1
         /\ \E e \in DOMAIN TblMatches[1] :
              /\ Bare(TblMatches[1][e].key) = t_table.displayColumns[c].key
              /\ HasSchemaEntry(TblMatches[1][e].key)
    /\ \A e \in DOMAIN TblMatches[1] :
         HasSchemaEntry(TblMatches[1][e].key)
           => ColumnsNamed(Bare(TblMatches[1][e].key)) # {}
    /\ \A n \in DOMAIN TblMatches : \A c \in DOMAIN t_table.displayColumns :
         LET name == t_table.displayColumns[c].key
             same == {e \in DOMAIN TblMatches[n] : Bare(TblMatches[n][e].key) = name}
         IN  t_table.displayColumns[c].choices = <<>> =>
               t_table.tableData[n][c].value =
                 IF same = {} THEN <<"-">> ELSE TblMatches[n][SetMax(same)].value

(***************************************************************************)
(* SpecDecode: the domain expert part of checkOverallStatus on one fetched *)
(* response for the domain expert form of the tool's maturity.             *)
(***************************************************************************)
MaxExperts == 2

DecToolId == s_ab

s_hcd_constructor == <<" ","h","c","d","\t","c","o","n","s","t","r","u","c","t","o","r">>
s_country_expert_ce ==
  <<"c","o","u","n","t","r","y","_","e","x","p","e","r","t"," ","C","e">>

DecStrings == {s_ce_data_xyz, s_CE_econ, s_hcd_constructor, s_country_expert_ce, s_sp}

\* submissions of the domain expert form: a tool id and an expertise string
\* under the field of either maturity
DecRecords ==
  {<<Entry(K_intro, id), Entry(k, str)>> :
     id \in {s_Ab_sp, s_ab}, k \in {K_expertise_early, K_expertise_advanced},
     str \in DecStrings}

DecResponses(results) ==
  {[kind |-> "ok", results |-> results], [kind |-> "network"], [kind |-> "noresults"]}

DecInit ==
  /\ d_results \in SeqsUpTo(DecRecords, MaxExperts)
  /\ d_level \in {"advanced", "early"}
  /\ d_statuses = NotRun
  /\ ClsIdle
  /\ MatchIdle
  /\ DashIdle
  /\ searches = <<>>
  /\ searchesLeft = 0
  /\ failuresLeft = 0
  /\ XlIdle
  /\ TblIdle

\* await apiClient.fetchData(domainExpertFormId) settles and the try block
\* or its catch assigns domainExpertStatuses
DecodeSettles(resp) ==
  /\ d_statuses = NotRun
  /\ d_statuses' = [state |-> "assigned", fetched |-> resp.kind,
                    statuses |-> ExpertStatusesOf(resp, DecToolId, d_level)]
  /\ UNCHANGED <<d_results, d_level>>
  /\ UNCHANGED <<clsVars, matchVars, dashVars, xlVars, tblVars>>

DecodeFetched == \E resp \in DecResponses(d_results) : DecodeSettles(resp)

DecNext == DecodeFetched

SpecDecode == DecInit /\ [][DecNext]_vars

(***************************************************************************)
(* Claims about the expertise decoding, under SpecDecode.  The tally they  *)
(* compare with is stated on the positions of the expertise strings,       *)
(* without trim, toLowerCase or split.                                     *)
(***************************************************************************)
\* the fetched records whose tool id is the searched one up to surrounding
\* white space
DecMatches ==
  {n \in DOMAIN d_results :
     SameTrimmed(ResolvedId(d_results[n], ExpertCandidates), DecToolId)}

\* the expertise field that is read for the tool's maturity
DecField ==
  IF d_level = "early" THEN K_expertise_early ELSE K_expertise_advanced

DecExpertise(n) ==
  IF Has(d_results[n], DecField) THEN Get(d_results[n], DecField) ELSE <<>>

\* <<a, b>> is a maximal run of non-white-space characters of str
IsToken(str, a, b) ==
  /\ a <= b
  /\ \A i \in a..b : str[i] \notin WhiteSpace
  /\ a = 1 \/ str[a - 1] \in WhiteSpace
  /\ b = Len(str) \/ str[b + 1] \in WhiteSpace

\* the run spells the code, in any letter case
Spells(str, a, b, code) ==
  /\ b - a + 1 = Len(code)
  /\ \A i \in DOMAIN code : SameLetter(str[a + i - 1], code[i])

\* the tokens of the matched records that are codes of the category
TokensOf(category) ==
  UNION {{t \in {n} \X (DOMAIN DecExpertise(n)) \X (DOMAIN DecExpertise(n)) :
            /\ IsToken(DecExpertise(n), t[2], t[3])
            /\ \E i \in DOMAIN DOMAIN_CODE_MAPPING :
                 /\ DOMAIN_CODE_MAPPING[i].name = category
                 /\ Spells(DecExpertise(n), t[2], t[3], DOMAIN_CODE_MAPPING[i].code)} :
         n \in DecMatches}

DecCounted(category) ==
  {i \in DOMAIN d_statuses.statuses : d_statuses.statuses[i].category = category}

\* C19: every token of a matched record's expertise string that is a code of
\* the table, in any letter case, adds one to its category's counter and no
\* other token adds anything; one matched record with "ce data xyz" gives
\* Country Expert 1, Data 1 and 0 for every other category.
C19_ExpertiseDecoding ==
  (d_statuses # NotRun /\ d_statuses.fetched = "ok") =>
    /\ \A i \in DOMAIN d_statuses.statuses :
         d_statuses.statuses[i].submissionCount
           = Cardinality(TokensOf(d_statuses.statuses[i].category))
    /\ (\E n \in DecMatches :
          DecMatches = {n} /\ DecExpertise(n) = s_ce_data_xyz)
         => \A i \in DOMAIN d_statuses.statuses :
              d_statuses.statuses[i].submissionCount
                = IF d_statuses.statuses[i].category \in {"Country Expert", "Data"}
                  THEN 1 ELSE 0

\* two matched records, one with ce, data and an unknown token, one with
\* upper-case CE and econ
C19_Witness ==
  /\ d_statuses # NotRun
  /\ d_statuses.fetched = "ok"
  /\ Cardinality(DecMatches) = 2
  /\ \E n \in DecMatches : DecExpertise(n) = s_ce_data_xyz
  /\ \E n \in DecMatches : DecExpertise(n) = s_CE_econ
  /\ \A i \in DecCounted("Country Expert") : d_statuses.statuses[i].submissionCount = 2
  /\ \A i \in DecCounted("Data") : d_statuses.statuses[i].submissionCount = 1
  /\ DecCounted("Data") # {}

\* the expected categories, written out for each maturity
ExpectedAdvanced ==
  <<"Country Expert", "Data", "Economics", "Gender Equity and Social Inclusion",
    "Human-Centered Design", "Information and Communication Technologies">>

IsNotDesign(category) == category # "Human-Centered Design"

ExpectedEarly == SelectSeq(ExpectedAdvanced, IsNotDesign)

Expected == IF d_level = "early" THEN ExpectedEarly ELSE ExpectedAdvanced

\* C20: the domain expert status list has one entry per expected category of
\* the tool's maturity, in the list's order (six for advanced, the five
\* without Human-Centered Design for early); an entry is submitted exactly
\* when its count is above 0, and a category no token of the matched records
\* names, or any category when the form could not be fetched, has count 0
\* and submitted false.
C20_ExpectedCategories ==
  d_statuses # NotRun =>
    LET statuses == d_statuses.statuses IN
    /\ Len(statuses) = Len(Expected)
    /\ Len(Expected) = IF d_level = "early" THEN 5 ELSE 6
    /\ \A i \in DOMAIN statuses :
         /\ statuses[i].category = Expected[i]
         /\ statuses[i].maturityLevel = d_level
         /\ statuses[i].submitted <=> statuses[i].submissionCount > 0
         /\ (d_statuses.fetched # "ok" \/ TokensOf(Expected[i]) = {})
              => /\ statuses[i].submissionCount = 0
                 /\ ~statuses[i].submitted

\* an early tool whose matched record names Human-Centered Design and one
\* listed category: four entries are not submitted with count 0, one is
\* submitted, and there is no entry for Human-Centered Design
C20_Witness ==
  /\ d_statuses # NotRun
  /\ d_statuses.fetched = "ok"
  /\ d_level = "early"
  /\ TokensOf("Human-Centered Design") # {}
  /\ TokensOf("Country Expert") # {}
  /\ Len(d_statuses.statuses) = 5
  /\ Cardinality({i \in DOMAIN d_statuses.statuses :
                    d_statuses.statuses[i].submitted}) = 1
  /\ DecCounted("Human-Centered Design") = {}

(***************************************************************************)
(* CoordinatorDashboard: what a status row and a form card show.           *)
(***************************************************************************)
\* !!x of an optional error string
HasErrorText(err) == err.set /\ err.message # <<>>

getStatusText(submitted, hasError) ==
  IF hasError THEN "Error" ELSE IF submitted THEN "Submitted" ELSE "Not Submitted"

\* getStatusText(innovator.submitted, !!innovator.error)
InnovatorRowText(innovator) ==
  getStatusText(innovator.submitted, HasErrorText(innovator.error))

\* getStatusText(expert.submitted)
ExpertRowText(expert) == getStatusText(expert.submitted, FALSE)

\* the body of a form card: the table, or one of the two empty texts
FormCardText(form) ==
  IF form.data # <<>> THEN "DataTable"
  ELSE IF HasErrorText(form.error) THEN "Failed to load data"
  ELSE "No matching responses"

(***************************************************************************)
(* Claims about the display of failed sources, under SpecAgg.              *)
(***************************************************************************)
\* the innovator and survey part of C21, which holds
FailedInnovatorOrSurveyShown ==
  /\ \A s \in StatusSearches : \A i \in DOMAIN INNOVATOR_FORMS :
       Failed(searches[s].resp[Roles[i]])
         => InnovatorRowText(overallStatus.innovators[i]) = "Error"
  /\ \A s \in ShownSearches : \A i \in DOMAIN UserTypes :
       Failed(searches[s].resp[UserTypes[i]])
         => /\ FormCardText(formData[i]) = "Failed to load data"
            /\ ~error.set

\* C21: whenever the fetch of a source fails during a search, that source is
\* displayed as an error with its message, not as "Not Submitted" or "No
\* matching responses", the other sources are populated and the search-level
\* error stays unset; for innovator, domain expert and survey sources.
C21_FailedSourceShown ==
  /\ FailedInnovatorOrSurveyShown
  /\ \A s \in StatusSearches :
       Failed(searches[s].resp["expert"])
         => /\ overallStatus.domainExperts # <<>>
            /\ \A i \in DOMAIN overallStatus.domainExperts :
                 ExpertRowText(overallStatus.domainExperts[i]) = "Error"
            /\ ~overallStatus.error.set

(***************************************************************************)
(* The proxy route GET /api/kobo (app/api/kobo/route.ts) for a formId that *)
(* is present, by what the form provider does with the proxy's request.    *)
(* The request carries AbortSignal.timeout(45000): when the provider stays *)
(* silent the fetch rejects after 45 s with a TimeoutError, which the      *)
(* catch turns into a 500 response.                                        *)
(***************************************************************************)
ProviderOutcomes == {"answers", "notfound", "unreachable", "silent"}

GET(formId, outcome) ==
  CASE outcome = "answers" -> [kind |-> "ok", results |-> ProviderData(formId)]
    [] outcome = "notfound" ->
         [kind |-> "http", body |-> "Form not found. Check form ID"]
    [] outcome = "unreachable" ->
         [kind |-> "http", body |-> "Network error: fetch failed"]
    [] outcome = "silent" ->
         [kind |-> "http",
          body |-> "Network error: The operation was aborted due to timeout"]

(***************************************************************************)
(* SpecWait: one search, with the waits that are bounded.  A data fetch    *)
(* goes through the proxy, which answers within its timeout whatever the   *)
(* provider does, so the steps that follow a data fetch are taken.  The    *)
(* fetch of a definition file (excel-form-parser.ts:32) has no signal and  *)
(* no timer: nothing makes it settle when the file server stays silent.    *)
(***************************************************************************)
SpecWait ==
  /\ InitAgg
  /\ [][Next]_vars
  /\ WF_vars(Master)
  /\ WF_vars(Innovator)
  /\ WF_vars(Expert)
  /\ WF_vars(Survey)

\* the proxy answers every request, and the client turns each answer without
\* a result list into a rejection with a message
ProxyAlwaysAnswers ==
  \A f \in {MAIN_FORM_ID, DOMAIN_EXPERT_FORMS("advanced")} :
    \A o \in ProviderOutcomes :
      /\ GET(f, o).kind \in {"ok", "http"}
      /\ o # "answers" => /\ fetchData(GET(f, o)).state = "rejected"
                          /\ fetchData(GET(f, o)).message # <<>>

\* the waits for the data fetches end: a search reaches its end or the wait
\* for a definition file
DataWaitsEnd ==
  (searches # <<>>)
    ~> (/\ searches # <<>>
        /\ \/ searches[1].pc = "done"
           \/ \E u \in {"usertype3", "usertype4"} :
                searches[1].surveys[u].state = "labels")

\* C22: every fetch issued during a search settles even when the remote
\* side never answers, so a search that is loading stops loading.
C22_BoundedWait == loading ~> ~loading

OverlapSameSchema ==
  \A c, d \in DOMAIN xl_calls :
    (/\ xl_calls[c].formType = xl_calls[d].formType
     /\ xl_calls[c].state = "returned"
     /\ xl_calls[d].state = "returned")
      => xl_calls[c].schema = xl_calls[d].schema

\* C24: when two loadFormSchema calls for one category overlap, the
\* definition file is fetched once for the category: no call starts a fetch
\* while an earlier call for the category is still fetching.
C24_SingleFlight ==
  \A c, d \in DOMAIN xl_calls :
    (/\ c < d
     /\ xl_calls[c].formType = xl_calls[d].formType
     /\ xl_calls[c].state = "fetching")
      => ~xl_calls[d].fetched

\* this step ends call c with a throw
CallThrows(c) ==
  /\ xl_calls[c].state = "fetching"
  /\ xl_calls'[c].state = "thrown"

\* every earlier call for the new call's category failed or is still
\* fetching, and one has failed
OnlyFailuresBefore ==
  /\ \E c \in DOMAIN xl_calls :
       xl_calls[c].formType = NewCall.formType /\ xl_calls[c].state = "thrown"
  /\ \A c \in DOMAIN xl_calls :
       xl_calls[c].formType = NewCall.formType => xl_calls[c].state # "returned"

\* C25: when loadFormSchema fails (file not fetched successfully, or no
\* "survey" sheet) the call rejects with a message, the cache is left as it
\* was for every category, and a later call for the category fetches again
\* instead of returning a cached failure.
C25_FailedLoadNotCached ==
  [][/\ \A c \in DOMAIN xl_calls :
          CallThrows(c) => /\ formCache' = formCache
                           /\ xl_calls'[c].message # <<>>
     /\ (CallStarts /\ OnlyFailuresBefore)
          => NewCall.state = "fetching" /\ NewCall.fetched]_vars

\* a load failed, a later load of the category fetched the file and returned
\* it, and the other category's entry was cached throughout
C25_Witness ==
  \E c, d, e \in DOMAIN xl_calls :
    /\ c < d
    /\ e < c
    /\ xl_calls[c].formType = xl_calls[d].formType
    /\ xl_calls[c].state = "thrown"
    /\ xl_calls[d].state = "returned"
    /\ xl_calls[d].fetched
    /\ xl_calls[e].formType # xl_calls[c].formType
    /\ xl_calls[e].state = "returned"
    /\ Len(formCache) = 2

(***************************************************************************)
(* Claims about the order and the targets of a search's requests, under    *)
(* SpecAgg.                                                                *)
(***************************************************************************)
\* the names a request may carry once the maturity level is known: the form
\* ids of the level's domain expert, usertype3 and usertype4 forms and its two
\* schema file names
ForAdvanced ==
  {"ap6dUEDwX7KUsKLFZUD7kb", "aFfhFi5vpsierwc3b5SNvc", "aU5LwrZps9u7Yt7obeShjv",
   "ut3_advance", "ut4_advance"}
ForEarly ==
  {"au52CRd6ATzV7S36WcAdDu", "aCAhpbKYdsMbnGcWo4yR42", "aKhnEosysRHsrUKxanCSKc",
   "ut3_early", "ut4_early"}
ForInnovators ==
  {"afiUqEoYaGMS8RaygTPuAR", "aqxEbPgQTMQQqe42ZFW2cc", "auq274db5dfNGasdH4bWdU"}

\* the requests of a search after the one for the master form
LaterRequests(s) == SubSeq(searches[s].requested, 2, Len(searches[s].requested))

\* C26: in every search the master form is requested first; nothing else is
\* requested before that request has completed and a maturity level has been
\* derived; every later request is for an innovator form or for a form or
\* schema file of exactly the derived maturity level.
C26_MaturityGatesFanOut ==
  \A s \in DOMAIN searches :
    /\ Len(searches[s].requested) >= 1
    /\ searches[s].requested[1] = [via |-> "proxy", name |-> "aJn2DsjpAeJjrB6VazHjtz"]
    /\ LaterRequests(s) # <<>> =>
          /\ searches[s].resp["main"] = "ok"
          /\ searches[s].maturity \in {"advanced", "early"}
    /\ \A i \in DOMAIN LaterRequests(s) :
          LaterRequests(s)[i].name \in
            ForInnovators \cup (IF searches[s].maturity = "advanced"
                                THEN ForAdvanced ELSE ForEarly)

\* a search of an early-stage tool has requested the early domain expert
\* form, both early survey forms and an early schema file
C26_Witness ==
  \E s \in DOMAIN searches :
    /\ searches[s].maturity = "early"
    /\ \E i, j, k, l \in DOMAIN LaterRequests(s) :
         /\ LaterRequests(s)[i].name = "au52CRd6ATzV7S36WcAdDu"
         /\ LaterRequests(s)[j].name = "aCAhpbKYdsMbnGcWo4yR42"
         /\ LaterRequests(s)[k].name = "aKhnEosysRHsrUKxanCSKc"
         /\ LaterRequests(s)[l] = [via |-> "file", name |-> "ut4_early"]

(***************************************************************************)
(* Claims about what a search leaves on display, under Spec.               *)
(***************************************************************************)
\* the step is a call of handleSearch that passes the guard on the tool id
SearchStarts == Len(searches') = Len(searches) + 1

\* a search that starts clears the maturity level, the overall status, the
\* form data and the error in the step that issues its first request
ClearedBeforeFetch ==
  [][SearchStarts =>
       /\ maturityLevel' = "null"
       /\ overallStatus' = [innovators |-> <<>>, domainExperts |-> <<>>,
                            loading |-> FALSE, error |-> NoError]
       /\ formData' = <<>>
       /\ ~error'.set
       /\ searches'[Len(searches')].requested
            = <<[via |-> "proxy", name |-> "aJn2DsjpAeJjrB6VazHjtz"]>>]_vars

\* a call of handleSearch with an empty or whitespace-only tool id sets the
\* error "Please enter a Tool ID" and changes nothing else
EmptyIdOnlySetsError ==
  [][(\A i \in DOMAIN toolId : toolId[i] \in WhiteSpace)
       => /\ Len(searches') = Len(searches)
          /\ (searches' = searches /\ toolId' = toolId)
               => /\ UNCHANGED <<loading, maturityLevel, formData, overallStatus,
                                 formCache>>
                  /\ \/ error' = error
                     \/ error' = [set |-> TRUE,
                                  message |-> <<Lit("Please enter a Tool ID")>>]]_vars

\* C27: after the search started last has ended in an error, no status, form
\* data or maturity level of an earlier search is on display.
C27_FreshPerSearch ==
  \A s \in DOMAIN searches :
    (s = Len(searches) /\ searches[s].outcome = "failed")
      => /\ formData = <<>>
         /\ overallStatus.innovators = <<>>
         /\ overallStatus.domainExperts = <<>>
         /\ maturityLevel = "null"

(***************************************************************************)
(* Claims about the size of a category's count, under SpecDecode.          *)
(***************************************************************************)
\* C28: the count reported for a category never exceeds the number of
\* matched domain expert records, i.e. one record adds at most 1 to a category
\* even if its expertise string holds two codes of the category.
C28_CountBoundedByRecords ==
  d_statuses # NotRun =>
    \A i \in DOMAIN d_statuses.statuses :
      d_statuses.statuses[i].submissionCount <= Cardinality(DecMatches)

(***************************************************************************)
(* Claims about the loading flag, under Spec.                              *)
(***************************************************************************)
\* the searches started by handleSearch that have not reached the end of its
\* finally block
Unfinished == {s \in DOMAIN searches : searches[s].pc # "done"}

\* C29: loading is true whenever some started search has not yet finished
\* and false once every started search has finished, also when searches
\* overlap.
C29_LoadingTracksInFlight == loading <=> Unfinished # {}

(***************************************************************************)
(* Claims about the results of getSurveyData, under SpecAgg.               *)
(***************************************************************************)
\* the results that the callbacks of getSurveyData have returned so far
SurveyResults ==
  UNION {{searches[s].surveys[u].value :
            u \in {v \in DOMAIN searches[s].surveys :
                     searches[s].surveys[v].state = "resolved"}} :
         s \in DOMAIN searches}

\* a result without error carries records whose keys have no group prefix
NoErrorCarriesStripped ==
  \A r \in SurveyResults :
    ~r.error.set =>
      \A n \in DOMAIN r.data : \A e \in DOMAIN r.data[n] : Len(r.data[n][e].key) = 1

\* C30: in every result returned by getSurveyData, if the error field is set
\* then the data list is empty and the question list is empty.
C30_ErrorImpliesEmpty ==
  \A r \in SurveyResults :
    r.error.set => r.data = <<>> /\ r.questions = <<>>

====
